---- MODULE Spec2Model ----
(***************************************************************************)
(* api-service-poc: the request pipeline (request context, @LogMethod      *)
(* instrumentation, error dispatch) as a state machine.                    *)
(*                                                                         *)
(* Every request slot r walks the Fastify lifecycle registered in          *)
(* src/app.ts: onRequest hooks, body parsing, schema validation, the       *)
(* preHandler API-key check, the route handler (controller -> service ->   *)
(* repository, each method wrapped by @LogMethod), the error handler and   *)
(* the onResponse hook.  One action is one run-to-completion segment of    *)
(* that chain; segments of different requests interleave freely.           *)
(***************************************************************************)
EXTENDS Integers, Sequences, FiniteSets, Bags, TLC

\* ------------------------------------------------------------------ bounds
NumReqs == 2
Reqs == 1..NumReqs

\* ------------------------------------------------- absent values of JS
\* `undefined` for a number-valued property
Undefined == -1
\* `undefined` for getRequestLogger(): loggers are identified by the request
\* whose request.log they are (1..NumReqs)
NoLogger == 0
\* requestContext.getStore() outside any run() scope
NoStore == [logger |-> NoLogger, reqId |-> ""]

\* ------------------------------------------------------ error taxonomy
\* A thrown value.  cls is constructor.name; isBase / isApi are the
\* instanceof BaseError / instanceof ApiError tests; the remaining fields are
\* the properties the handlers read ("" / Undefined / FALSE when absent).
BaseError(cls, message, code, isOperational, context) ==
  [cls |-> cls, isBase |-> TRUE, isApi |-> FALSE, message |-> message,
   code |-> code, isOperational |-> isOperational, context |-> context,
   statusCode |-> Undefined, validation |-> FALSE, validationContext |-> "",
   details |-> <<>>, timestamp |-> "T0"]

\* server-side statuses constructed as non-operational
ApiError_ServerSideNonOperational(cls, message, statusCode, code, context) ==
  [BaseError(cls, message, code, statusCode < 500, context)
     EXCEPT !.isApi = TRUE, !.statusCode = statusCode]

ApiError(cls, message, statusCode, code, context) ==
  [BaseError(cls, message, code, TRUE, context)
     EXCEPT !.isApi = TRUE, !.statusCode = statusCode]

BadRequestError(message, context) ==
  ApiError("BadRequestError", message, 400, "BAD_REQUEST", context)

UnauthorizedError(message, context) ==
  ApiError("UnauthorizedError", message, 401, "UNAUTHORIZED", context)

ForbiddenError(message, context) ==
  ApiError("ForbiddenError", message, 403, "FORBIDDEN", context)

NotFoundError(resource, identifier, context) ==
  ApiError("NotFoundError",
           IF identifier # ""
             THEN resource \o " with identifier '" \o identifier \o "' not found"
             ELSE resource \o " not found",
           404, "NOT_FOUND", context \o "+resource+identifier")

ConflictError(message, context) ==
  ApiError("ConflictError", message, 409, "CONFLICT", context)

\* the earlier InvalidIdError, a BadRequestError with a fixed message
InvalidIdError_Legacy(id, context) ==
  ApiError("InvalidIdError", "Invalid user ID format", 400,
           "INVALID_ID_FORMAT", context \o "+invalidId")

InvalidIdError(id, context) ==
  ApiError("InvalidIdError", "Invalid ID format: " \o id, 400,
           "INVALID_ID_FORMAT", context \o "+id")

InternalServerError(message, context) ==
  ApiError("InternalServerError", message, 500, "INTERNAL_SERVER_ERROR", context)

ServiceUnavailableError(service, context) ==
  ApiError("ServiceUnavailableError", "Service unavailable: " \o service, 503,
           "SERVICE_UNAVAILABLE", context \o "+service")

ConfigurationError(message, context) ==
  BaseError("ConfigurationError", message, "CONFIGURATION_ERROR", FALSE, context)

DatabaseError(message, operation, context) ==
  BaseError("DatabaseError", message, "DATABASE_ERROR", TRUE, context \o "+operation")

\* A value that is not one of the repository's classes: a plain Error, a
\* TypeError, a driver error, or an error object made by the framework
\* (statusCode, validation and validationContext are the FastifyError
\* properties the error handler reads).
ForeignError(cls, message, statusCode, validation, validationContext) ==
  [cls |-> cls, isBase |-> FALSE, isApi |-> FALSE, message |-> message,
   code |-> "", isOperational |-> FALSE, context |-> "",
   statusCode |-> statusCode, validation |-> validation,
   validationContext |-> validationContext, details |-> <<>>,
   timestamp |-> ""]

NoError == ForeignError("", "", Undefined, FALSE, "")

isApiError(error) == error.isApi

isBaseError(error) == error.isBase

isOperationalError(error) == isBaseError(error) /\ error.isOperational

\* ValidationError: an ApiError with the failing fields in details
ValidationError(message, details, context) ==
  [ApiError("ValidationError", message, 400, "VALIDATION_ERROR", context)
     EXCEPT !.details = details]

\* the client view with the context of the error added
ApiError_toClientResponse_WithContext(error) ==
  [success |-> FALSE, error |-> error.message, code |-> error.code,
   timestamp |-> "iso:" \o error.timestamp, context |-> error.context]

\* ApiError.toClientResponse
ApiError_toClientResponse(error) ==
  [success |-> FALSE, error |-> error.message, code |-> error.code,
   timestamp |-> "iso:" \o error.timestamp]

\* ValidationError.toClientResponse: { ...super.toClientResponse(), details }
ValidationError_toClientResponse(error) ==
  ApiError_toClientResponse(error) @@ [details |-> error.details]

\* error.toClientResponse(): the method of the value's own class
toClientResponse(error) ==
  IF error.cls = "ValidationError" THEN ValidationError_toClientResponse(error)
  ELSE ApiError_toClientResponse(error)

\* getStatusCode of the error guards
getStatusCode(error) == IF isApiError(error) THEN error.statusCode ELSE 500

toJSON(error) ==
  [name |-> error.cls, message |-> error.message, code |-> error.code,
   isOperational |-> error.isOperational, context |-> error.context,
   timestamp |-> error.timestamp, stack |-> "stack:" \o error.cls]

\* ----------------------------------------------------- response helpers
createErrorResponse(error) == [success |-> FALSE, error |-> error]

createValidationErrorResponse(error, details) ==
  [success |-> FALSE, error |-> error, details |-> details]

createNotFoundResponse == [success |-> FALSE, error |-> "Not found"]

createSuccessDataResponse(data) == [success |-> TRUE, data |-> data]

createSuccessMessageResponse(message) == [success |-> TRUE, message |-> message]

\* ------------------------------------------------------------ routes
Ops == {"getAllUsers", "getUserById", "createUser", "updateUser", "deleteUser"}

\* userRoutes, registered under the prefix /api: the HTTP method, the route
\* pattern (request.routeOptions.url, as path segments) and the schemas
Route(op) ==
  CASE op = "getAllUsers" -> [method |-> "GET",    pattern |-> <<"api", "users">>,        params |-> FALSE, body |-> FALSE]
    [] op = "getUserById" -> [method |-> "GET",    pattern |-> <<"api", "users", ":id">>, params |-> TRUE,  body |-> FALSE]
    [] op = "createUser"  -> [method |-> "POST",   pattern |-> <<"api", "users">>,        params |-> FALSE, body |-> TRUE]
    [] op = "updateUser"  -> [method |-> "PUT",    pattern |-> <<"api", "users", ":id">>, params |-> TRUE,  body |-> TRUE]
    [] op = "deleteUser"  -> [method |-> "DELETE", pattern |-> <<"api", "users", ":id">>, params |-> TRUE,  body |-> FALSE]

\* identifiers used as the :id path parameter
IdA == "64b0c0ffee0000000000000a"
IdB == "64b0c0ffee0000000000000b"
BadId == "not-a-valid-id"
\* /^[0-9a-fA-F]{24}$/ of userIdParamSchema
MatchesObjectIdRegex(id) == id \in {IdA, IdB}
\* /\/[0-9a-f]{24}/ of normalizeRoute, on one path segment
IsLowerHex24(seg) == seg \in {IdA, IdB}
\* ObjectId.isValid of the driver
ObjectIdIsValid(id) == id \in {IdA, IdB}

\* the configured allow-list env.API_KEYS and the keys a client may send
API_KEYS == {"good-key"}
SentKeys == {"", "bad-key", "good-key"}

\* what the data store does with the one driver call a request makes
Value(v) == [kind |-> "value", val |-> v, err |-> NoError]
Thrown(e) == [kind |-> "error", val |-> "", err |-> e]
Pending == [kind |-> "none", val |-> "", err |-> NoError]

DriverResults(op) ==
  CASE op = "getAllUsers" -> {"docs"}
    [] op = "getUserById" -> {"doc", "null"}
    [] op = "createUser"  -> {"inserted"}
    [] op = "updateUser"  -> {"doc", "null"}
    [] op = "deleteUser"  -> {"deleted:1", "deleted:0"}

DriverError == ForeignError("MongoNetworkError", "connect ECONNREFUSED 10.0.0.5:27017", Undefined, FALSE, "")

\* values a dependency may throw while a request is handled
Faults ==
  { DriverError,
    ForeignError("TypeError", "Cannot read properties of undefined", Undefined, FALSE, ""),
    ForeignError("Error", "", Undefined, FALSE, ""),
    ForeignError("Error", "upstream unavailable", 503, FALSE, ""),
    ForeignError("FastifyError", "Route GET:/nope not found", 404, FALSE, ""),
    ConfigurationError("Environment variable MONGODB_URI is required but not set", "key"),
    ConfigurationError("Certificate auth mode requires DB_CERT_KEY_PATH to be set", "authMode"),
    DatabaseError("E11000 duplicate key", "insertOne", "collection"),
    ConflictError("Email already exists", "email"),
    InvalidIdError(BadId, "method"),
    ValidationError("Validation error", <<"email">>, "schema"),
    InternalServerError("Internal server error", ""),
    ServiceUnavailableError("database", "") }

\* One request: how it arrives and what its collaborators will answer.
\* origin "http" is a request through the server; origin "direct" is a call of
\* the service method from outside any request (a unit test, a script).
Input(origin, op, id, bodyOk, apiKey, xRequestId, db) ==
  [origin |-> origin, op |-> op, id |-> id, bodyOk |-> bodyOk,
   apiKey |-> apiKey, xRequestId |-> xRequestId, db |-> db]

Off == Input("off", "getAllUsers", "", TRUE, "", "", Pending)

IdsFor(op) == IF Route(op).params THEN {IdA, BadId} ELSE {""}
BodiesFor(op) == IF Route(op).body THEN {TRUE, FALSE} ELSE {TRUE}
DbFor(op) == {Value(v) : v \in DriverResults(op)} \cup {Thrown(e) : e \in Faults}

HttpInputs ==
  UNION { { Input("http", op, id, b, k, x, d) :
              id \in IdsFor(op), b \in BodiesFor(op), k \in SentKeys,
              x \in {"", "rid-A"}, d \in DbFor(op) } : op \in Ops }

DirectInputs ==
  UNION { { Input("direct", op, id, TRUE, "", "", d) :
              id \in IdsFor(op), d \in DbFor(op) } : op \in Ops }

AllInputs == HttpInputs \cup DirectInputs

\* the inputs of the concurrent specification: one of each path
ConcInputs ==
  { Input("http", "getUserById", IdA, TRUE, "good-key", "", Value("null")),
    Input("http", "getUserById", IdB, TRUE, "good-key", "rid-A", Value("doc")),
    Input("http", "createUser", "", TRUE, "good-key", "rid-A", Value("inserted")),
    Input("http", "createUser", "", FALSE, "good-key", "", Value("inserted")),
    Input("http", "deleteUser", IdA, TRUE, "good-key", "", Thrown(DriverError)),
    Input("http", "getAllUsers", "", TRUE, "good-key", "", Thrown(InvalidIdError(BadId, "method"))),
    Input("http", "getAllUsers", "", TRUE, "", "", Value("docs")),
    Input("http", "getAllUsers", "", TRUE, "bad-key", "", Value("docs")),
    Input("direct", "getUserById", BadId, TRUE, "", "", Value("doc")) }

\* ------------------------------------------------------------- state
VARIABLES
  req,      \* req[r]: the input of request r (fixed once chosen)
  pc,       \* pc[r]: the lifecycle stage request r waits in
  ctx,      \* ctx[r]: the AsyncLocalStorage store the continuation of r runs in
  res,      \* res[r]: the settled result travelling up r's await chain
  inv,      \* inv[r][layer]: the @LogMethod invocation r made on that layer
  reply,    \* reply[r]: what reply.send has sent for r
  seen,     \* seen[r]: the stores read through getRequestLogger/getRequestId in r's chain
  log,      \* log[r]: the log lines written in r's chain, in order
  metrics,  \* the prom-client registry: one bag of label sets per collector
  disp,     \* disp[r]: the branch errorHandler took for r
  call,     \* a constructor or function called on its own, outside the pipeline
  ret       \* what that call, and the methods applied to its result, returned

\* the request pipeline
pipeline == <<req, pc, ctx, res, inv, reply, seen, log, metrics, disp>>

vars == <<req, pc, ctx, res, inv, reply, seen, log, metrics, disp, call, ret>>

NoCall == [fn |-> "none"]
NoRet == [fn |-> "none"]

Layers == {"controller", "service", "repository"}

ClassName(layer) ==
  CASE layer = "controller" -> "UserController"
    [] layer = "service"    -> "UserService"
    [] layer = "repository" -> "UserRepository"

\* the instance container.resolve hands out for the layer
Instance(layer) ==
  CASE layer = "controller" -> "userController"
    [] layer = "service"    -> "userService"
    [] layer = "repository" -> "userRepository"

MethodName(layer, op) ==
  IF layer # "repository" THEN op
  ELSE CASE op = "getAllUsers" -> "findAll"
         [] op = "getUserById" -> "findById"
         [] op = "createUser"  -> "create"
         [] op = "updateUser"  -> "update"
         [] op = "deleteUser"  -> "delete"

\* the argument list each layer is called with
Args(layer, r) ==
  LET op == req[r].op
      id == req[r].id
      oid == "ObjectId(" \o id \o ")"
  IN CASE layer = "controller" -> <<"request", "reply">>
       [] layer = "service" ->
            CASE op = "getAllUsers" -> <<>>
              [] op = "createUser"  -> <<"body">>
              [] op = "updateUser"  -> <<id, "body">>
              [] OTHER              -> <<id>>
       [] layer = "repository" ->
            CASE op = "getAllUsers" -> <<>>
              [] op = "createUser"  -> <<"body">>
              [] op = "updateUser"  -> <<oid, "body">>
              [] OTHER              -> <<oid>>

InvIdle ==
  [st |-> "idle", logger |-> NoLogger, this |-> "", args |-> <<>>,
   calls |-> 0, recv |-> "", recvArgs |-> <<>>, orig |-> Pending,
   out |-> Pending, obs |-> <<>>, incs |-> <<>>, logs |-> <<>>, warns |-> 0]

NoReply == [sent |-> 0, status |-> 0, body |-> [success |-> FALSE]]

NoDispatch ==
  [branch |-> "", error |-> NoError, fatal |-> <<>>, labels |-> <<>>]

EmptyRegistry ==
  [methodDuration |-> EmptyBag, methodInvocations |-> EmptyBag,
   authFailures |-> EmptyBag, validationErrors |-> EmptyBag,
   customErrorsByType |-> EmptyBag, httpRequestDuration |-> EmptyBag,
   httpRequestsTotal |-> EmptyBag]

\* the sample count of the label set written as one, whatever it was
Inc_LastWriteWins(bag, labels) ==
  [l \in DOMAIN bag \cup {labels} |-> IF l = labels THEN 1 ELSE bag[l]]

\* Counter.inc(labels) / Histogram.observe(labels, v): one more sample under
\* the label set
Inc(bag, labels) == bag (+) SetToBag({labels})

RECURSIVE IncAll(_, _)
IncAll(bag, labelSeq) ==
  IF labelSeq = <<>> THEN bag
  ELSE IncAll(Inc(bag, Head(labelSeq)), Tail(labelSeq))

StartPc(i) ==
  CASE i.origin = "http"   -> "onRequest"
    [] i.origin = "direct" -> "service"
    [] OTHER               -> "off"

InitRest ==
  /\ pc = [r \in Reqs |-> StartPc(req[r])]
  /\ ctx = [r \in Reqs |-> NoStore]
  /\ res = [r \in Reqs |-> Pending]
  /\ inv = [r \in Reqs |-> [l \in Layers |-> InvIdle]]
  /\ reply = [r \in Reqs |-> NoReply]
  /\ seen = [r \in Reqs |-> {}]
  /\ log = [r \in Reqs |-> <<>>]
  /\ metrics = EmptyRegistry
  /\ disp = [r \in Reqs |-> NoDispatch]

\* NumReqs requests in flight at once
Init ==
  /\ req \in [Reqs -> ConcInputs]
  /\ InitRest
  /\ call = NoCall /\ ret = NoRet

\* one request or direct call, with any input
InitOne ==
  /\ \E i \in AllInputs : req = [r \in Reqs |-> IF r = 1 THEN i ELSE Off]
  /\ InitRest
  /\ call = NoCall /\ ret = NoRet

\* --------------------------------------------------- request context
\* randomUUID(): a fresh value per request
randomUUID(r) == "uuid-" \o ToString(r)

\* genReqId of buildApp: the x-request-id header if sent, else a fresh UUID
genReqId(r) ==
  IF req[r].xRequestId # "" THEN req[r].xRequestId ELSE randomUUID(r)

\* request.log: the child logger the server creates for request r
RequestLog(r) == r

\* a store built once and shared by every request
requestContextStore_Shared(r) == [logger |-> RequestLog(1), reqId |-> randomUUID(1)]

\* the store requestContextMiddleware builds for request r
requestContextStore(r) == [logger |-> RequestLog(r), reqId |-> genReqId(r)]

\* requestContext.getStore() in the continuation of r
getStore(r) == ctx[r]

getRequestLogger(r) == getStore(r).logger

getRequestId(r) == getStore(r).reqId

\* ---------------------------------------------------------- @LogMethod
LogLine(logger, level, mark, cls, method) ==
  [logger |-> logger, level |-> level, mark |-> mark, class |-> cls,
   method |-> method]

\* the entry log taken from the logger without the presence test
LogMethodBefore_RequiresLogger(logger, cls, method) ==
  IF logger # NoLogger
    THEN [logs |-> << LogLine(logger, "info", "enter", cls, method) >>,
          warns |-> 0, fault |-> NoError]
    ELSE [logs |-> <<>>, warns |-> 0,
          fault |-> ForeignError("TypeError", "Cannot read properties of undefined (reading 'child')",
                                 Undefined, FALSE, "")]

\* lines 69-75: the entry log inside the try block.  fault is what the block
\* threw (NoError: nothing).
LogMethodBefore(logger, cls, method) ==
  IF logger # NoLogger
    THEN [logs |-> << LogLine(logger, "info", "enter", cls, method) >>,
          warns |-> 0, fault |-> NoError]
    ELSE [logs |-> <<>>, warns |-> 1, fault |-> NoError]

\* line 77: originalMethod.apply(this, args)
LogMethodApply(this, args) == [recv |-> this, args |-> args]

\* the status label never reassigned in the catch block
LogMethodStatus_Stale(settled) == "success"

\* lines 67 and 89: the status label
LogMethodStatus(settled) ==
  IF settled.kind = "error" THEN "error" ELSE "success"

\* lines 80-82 and 92-94: the exit or error log
LogMethodAfterLog(logger, cls, method, settled) ==
  IF logger = NoLogger THEN <<>>
  ELSE IF settled.kind = "error"
         THEN << LogLine(logger, "error", "fail", cls, method) >>
         ELSE << LogLine(logger, "info", "exit", cls, method) >>

\* lines 84 and 96: methodDuration.observe(labels, duration)
LogMethodObserve(cls, method, settled) ==
  << [class_name |-> cls, method_name |-> method,
      status |-> LogMethodStatus(settled)] >>

\* the counter incremented on the success path only
LogMethodInc_SuccessOnly(cls, method, settled) ==
  IF settled.kind = "error" THEN <<>>
  ELSE << [class_name |-> cls, method_name |-> method, status |-> "success"] >>

\* lines 85 and 97: methodInvocations.inc(labels)
LogMethodInc(cls, method, settled) ==
  << [class_name |-> cls, method_name |-> method,
      status |-> LogMethodStatus(settled)] >>

\* the caught error replaced by a new one
LogMethodResult_Wrapped(settled) ==
  IF settled.kind = "error"
    THEN Thrown(InternalServerError(settled.err.message, ""))
    ELSE settled

\* lines 87 and 99: return result / throw error
LogMethodResult(settled) == settled

\* The first segment of the wrapper for request r on a layer: read the request
\* logger, write the entry log, call the wrapped method.
Enter(r, layer) ==
  LET cls == ClassName(layer)
      method == MethodName(layer, req[r].op)
      logger == getRequestLogger(r)
      b == LogMethodBefore(logger, cls, method)
      a == LogMethodApply(Instance(layer), Args(layer, r))
  IN [InvIdle EXCEPT
        !.st = "open", !.logger = logger,
        !.this = Instance(layer), !.args = Args(layer, r),
        !.calls = IF b.fault = NoError THEN 1 ELSE 0,
        !.recv = IF b.fault = NoError THEN a.recv ELSE "",
        !.recvArgs = IF b.fault = NoError THEN a.args ELSE <<>>,
        !.orig = IF b.fault = NoError THEN Pending ELSE Thrown(b.fault),
        !.logs = b.logs, !.warns = b.warns]

\* The second segment: the awaited call has settled (or the try block threw);
\* write the exit or error log, record the metrics, return or rethrow.
Settle(i, cls, method, settled) ==
  [i EXCEPT
     !.st = IF LogMethodResult(settled).kind = "error" THEN "threw" ELSE "returned",
     !.orig = settled,
     !.out = LogMethodResult(settled),
     !.logs = i.logs \o LogMethodAfterLog(i.logger, cls, method, settled),
     !.obs = i.obs \o LogMethodObserve(cls, method, settled),
     !.incs = i.incs \o LogMethodInc(cls, method, settled)]

\* the registry after the samples of a settled invocation
Record(m, i) ==
  [m EXCEPT !.methodDuration = IncAll(m.methodDuration, i.obs),
            !.methodInvocations = IncAll(m.methodInvocations, i.incs)]

\* ------------------------------------------------------ the lifecycle
\* only null taken as absent
Falsy_NullOnly(v) == v = "null"

\* JavaScript truthiness of a returned value / of a number
Falsy(v) == v \in {"null", "false", "undefined", ""}
Truthy(n) == n # Undefined /\ n # 0

\* request.url, as path segments: the pattern with the parameter filled in
RequestUrl(r) ==
  [k \in DOMAIN Route(req[r].op).pattern |->
     IF Route(req[r].op).pattern[k] = ":id" THEN req[r].id
     ELSE Route(req[r].op).pattern[k]]

\* request.routeOptions.url: the pattern of the matched route
RouteOptionsUrl(r) == Route(req[r].op).pattern

normalizeRoute(route) ==
  [k \in DOMAIN route |-> IF IsLowerHex24(route[k]) THEN ":id" ELSE route[k]]

Send(r, status, body) ==
  [sent |-> reply[r].sent + 1, status |-> status, body |-> body]

\* onRequest hooks of buildApp.  requestContextMiddleware runs done() inside
\* requestContext.run(store, ...), so what done() starts inherits the store;
\* metricsMiddleware stamps the start time.
OnRequest(r) ==
  /\ pc[r] = "onRequest"
  /\ ctx' = [ctx EXCEPT ![r] = requestContextStore(r)]
  /\ pc' = [pc EXCEPT ![r] = IF Route(req[r].op).body THEN "parsing" ELSE "validation"]
  /\ UNCHANGED <<call, ret, req, res, inv, reply, seen, log, metrics, disp>>

\* A request with a body: the lifecycle resumes from the request stream's
\* 'end' event.  The listener runs in the async context of whatever delivered
\* the last chunk: the scope of the onRequest hook when the body was already
\* buffered and is flushed by the resume the hook chain scheduled, or the
\* socket's own context, which has no store, when the body arrives later.
ParseBody(r) ==
  /\ pc[r] = "parsing"
  /\ \E kept \in BOOLEAN :
       ctx' = [ctx EXCEPT ![r] = IF kept THEN ctx[r] ELSE NoStore]
  /\ pc' = [pc EXCEPT ![r] = "validation"]
  /\ UNCHANGED <<call, ret, req, res, inv, reply, seen, log, metrics, disp>>

\* the error the framework makes of a schema failure: statusCode 400, the
\* failures in validation (here: the flag plus the failing fields in details)
\* and the failing group in validationContext
SchemaFailure(group) ==
  [ForeignError("FastifyError", group \o " validation failed", 400, TRUE, group)
     EXCEPT !.details = IF group = "params" THEN <<"id">> ELSE <<"email">>]

\* the params schema left out of the routes
FailingGroup_BodyOnly(r) ==
  IF Route(req[r].op).body /\ ~req[r].bodyOk THEN "body" ELSE ""

\* the group the route's schema rejects first: params, then body
FailingGroup(r) ==
  IF Route(req[r].op).params /\ ~MatchesObjectIdRegex(req[r].id) THEN "params"
  ELSE IF Route(req[r].op).body /\ ~req[r].bodyOk THEN "body"
  ELSE ""

\* schema validation of the route (params: / body: of userRoutes); a failure
\* is thrown to the error handler with the framework's validation signal
Validate(r) ==
  /\ pc[r] = "validation"
  /\ IF FailingGroup(r) # ""
       THEN /\ res' = [res EXCEPT ![r] =
                   Thrown(SchemaFailure(FailingGroup(r)))]
            /\ pc' = [pc EXCEPT ![r] = "error"]
       ELSE /\ res' = res
            /\ pc' = [pc EXCEPT ![r] = "preHandler"]
  /\ UNCHANGED <<call, ret, req, ctx, inv, reply, seen, log, metrics, disp>>

\* requireApiKey, the preHandler hook of every /api route
requireApiKey(r) ==
  /\ pc[r] = "preHandler"
  /\ IF req[r].apiKey = ""
       THEN /\ metrics' = [metrics EXCEPT !.authFailures = Inc(@, [reason |-> "missing_api_key"])]
            /\ reply' = [reply EXCEPT ![r] = Send(r, 401, createErrorResponse("API key required"))]
            /\ pc' = [pc EXCEPT ![r] = "onResponse"]
       ELSE IF req[r].apiKey \notin API_KEYS
         THEN /\ metrics' = [metrics EXCEPT !.authFailures = Inc(@, [reason |-> "invalid_api_key"])]
              /\ reply' = [reply EXCEPT ![r] = Send(r, 403, createErrorResponse("Invalid API key"))]
              /\ pc' = [pc EXCEPT ![r] = "onResponse"]
         ELSE /\ pc' = [pc EXCEPT ![r] = "handler"]
              /\ UNCHANGED <<metrics, reply>>
  /\ UNCHANGED <<call, ret, req, ctx, res, inv, seen, log, disp>>

\* ------------------------------------------- controller/service/repository
IdOps == {"getUserById", "updateUser", "deleteUser"}

\* UserService.<op>: the id check before the repository call
ServiceBody(r) ==
  IF req[r].op \in IdOps /\ ~ObjectIdIsValid(req[r].id)
    THEN Thrown(InvalidIdError(req[r].id, "method"))
    ELSE Pending

\* UserRepository.<method>: what it returns for the driver's answer
RepositoryBody(op, settled) ==
  IF settled.kind = "error" THEN settled
  ELSE CASE op = "createUser" -> Value("doc")
         [] op = "deleteUser" -> Value(IF settled.val = "deleted:1" THEN "true" ELSE "false")
         [] OTHER             -> settled

\* the service's error caught by the controller and dropped
ControllerBody_Swallow(r, settled) ==
  IF settled.kind = "error" THEN Value("undefined")
  ELSE IF req[r].op \in IdOps /\ Falsy(settled.val)
    THEN Thrown(NotFoundError("User", req[r].id, ""))
    ELSE Value("undefined")

\* UserController.<op> after the service call settled: NotFoundError for an
\* absent result of an id operation, else undefined after reply.send
ControllerBody(r, settled) ==
  IF settled.kind = "error" THEN settled
  ELSE IF req[r].op \in IdOps /\ Falsy(settled.val)
    THEN Thrown(NotFoundError("User", req[r].id, ""))
    ELSE Value("undefined")

\* what the controller sends when it does not throw
ControllerReply(r, settled) ==
  CASE req[r].op = "createUser" -> Send(r, 201, createSuccessDataResponse(settled.val))
    [] req[r].op = "deleteUser" -> Send(r, 200, createSuccessMessageResponse("User deleted successfully"))
    [] OTHER                    -> Send(r, 200, createSuccessDataResponse(settled.val))

\* A wrapped method of a layer is called in the chain of r.  body is what the
\* method does before its first await: Pending (it awaits the next stage, pc
\* next) or an outcome (it settles at once; the wrapper resumes at pc back).
\* up is where the caller resumes once the wrapper itself has settled.
Call(r, layer, body, next, back, up) ==
  LET e == Enter(r, layer)
      cls == ClassName(layer)
      method == MethodName(layer, req[r].op)
  IN /\ seen' = [seen EXCEPT ![r] = @ \cup {getStore(r)}]
     /\ IF e.orig.kind = "error"
          THEN \* the try block threw before the call: the catch block runs
               LET d == Settle(e, cls, method, e.orig)
               IN /\ inv' = [inv EXCEPT ![r][layer] = d]
                  /\ log' = [log EXCEPT ![r] = @ \o d.logs]
                  /\ metrics' = Record(metrics, d)
                  /\ res' = [res EXCEPT ![r] = d.out]
                  /\ pc' = [pc EXCEPT ![r] = up]
          ELSE /\ inv' = [inv EXCEPT ![r][layer] = e]
               /\ log' = [log EXCEPT ![r] = @ \o e.logs]
               /\ metrics' = metrics
               /\ res' = [res EXCEPT ![r] = body]
               /\ pc' = [pc EXCEPT ![r] = IF body.kind = "none" THEN next ELSE back]
     /\ UNCHANGED <<call, ret, req, ctx, reply, disp>>

\* the route handler: getController().<op>(req, reply)
ControllerCall(r) ==
  /\ pc[r] = "handler"
  /\ Call(r, "controller", Pending, "service", "controllerExit", "error")

\* this.userService.<op>(...), or a direct call from outside a request
ServiceCall(r) ==
  /\ pc[r] = "service"
  /\ Call(r, "service", ServiceBody(r), "repository", "serviceExit",
          IF req[r].origin = "direct" THEN "done" ELSE "controllerExit")

\* this.userRepository.<method>(...)
RepositoryCall(r) ==
  /\ pc[r] = "repository"
  /\ Call(r, "repository", Pending, "db", "repositoryExit", "serviceExit")

\* the driver call settles
DbSettle(r) ==
  /\ pc[r] = "db"
  /\ res' = [res EXCEPT ![r] = req[r].db]
  /\ pc' = [pc EXCEPT ![r] = "repositoryExit"]
  /\ UNCHANGED <<call, ret, req, ctx, inv, reply, seen, log, metrics, disp>>

\* The awaited call of a layer has settled with `settled`: the wrapper's
\* second segment runs and hands its result to the caller.
Return(r, layer, settled, next) ==
  LET cls == ClassName(layer)
      method == MethodName(layer, req[r].op)
      d == Settle(inv[r][layer], cls, method, settled)
  IN /\ inv' = [inv EXCEPT ![r][layer] = d]
     /\ log' = [log EXCEPT ![r] = @ \o LogMethodAfterLog(inv[r][layer].logger, cls, method, settled)]
     /\ metrics' = [metrics EXCEPT
                      !.methodDuration = IncAll(@, LogMethodObserve(cls, method, settled)),
                      !.methodInvocations = IncAll(@, LogMethodInc(cls, method, settled))]
     /\ res' = [res EXCEPT ![r] = d.out]
     /\ pc' = [pc EXCEPT ![r] = next]
     /\ UNCHANGED <<call, ret, req, ctx, seen, disp>>

RepositoryReturn(r) ==
  /\ pc[r] = "repositoryExit"
  /\ inv[r]["repository"].st = "open"
  /\ Return(r, "repository", RepositoryBody(req[r].op, res[r]), "serviceExit")
  /\ UNCHANGED reply

ServiceReturn(r) ==
  /\ pc[r] = "serviceExit"
  /\ inv[r]["service"].st = "open"
  /\ Return(r, "service", res[r],
            IF req[r].origin = "direct" THEN "done" ELSE "controllerExit")
  /\ UNCHANGED reply

ControllerReturn(r) ==
  /\ pc[r] = "controllerExit"
  /\ inv[r]["controller"].st = "open"
  /\ LET body == ControllerBody(r, res[r])
     IN /\ reply' = IF body.kind = "value"
                      THEN [reply EXCEPT ![r] = ControllerReply(r, res[r])]
                      ELSE reply
        /\ Return(r, "controller", body,
                  IF LogMethodResult(body).kind = "error" THEN "error" ELSE "onResponse")

\* ------------------------------------------------------ error handler
\* line 24: the endpoint label of api_custom_errors_total
CustomErrorEndpoint(r) == RequestUrl(r)

\* lines 21-25: the label set of api_custom_errors_total
CustomErrorLabels(r, error) ==
  [error_type |-> error.cls, error_code |-> error.code,
   endpoint |-> CustomErrorEndpoint(r)]

\* the failing group dropped from the label set
ValidationLabels_Unknown(r, error) ==
  [endpoint |-> RouteOptionsUrl(r), validation_type |-> "unknown"]

\* lines 49-53: the label set of validation_errors_total
ValidationLabels(r, error) ==
  [endpoint |-> RouteOptionsUrl(r),
   validation_type |-> IF error.validationContext # ""
                         THEN error.validationContext ELSE "unknown"]

\* the error's own message sent to the client
NonOperationalBody_Leaky(error) == createErrorResponse(error.message)

\* line 35: the body sent for a non-operational BaseError
NonOperationalBody(error) == createErrorResponse("Internal server error")

\* the status of the value ignored
FallbackStatus_Always500(error) == 500

\* line 62: fastifyError.statusCode || 500
FallbackStatus(error) ==
  IF Truthy(error.statusCode) THEN error.statusCode ELSE 500

\* line 63: createErrorResponse(error.message || 'Internal server error')
FallbackBody(error) ==
  createErrorResponse(IF error.message # "" THEN error.message
                      ELSE "Internal server error")

\* the branch errorHandler takes, in the order of its tests
Branch(error) ==
  IF isApiError(error) THEN "api"
  ELSE IF isBaseError(error) /\ ~error.isOperational THEN "nonOperational"
  ELSE IF error.statusCode = 404 THEN "notFound"
  ELSE IF error.validation THEN "validation"
  ELSE "fallback"

\* errorHandler(error, request, reply) for the error thrown in the chain of r
errorHandler(r) ==
  /\ pc[r] = "error"
  /\ res[r].kind = "error"
  /\ LET error == res[r].err
         b == Branch(error)
         raw == [logger |-> RequestLog(r), level |-> "error", mark |-> "raw",
                 class |-> error.cls, method |-> ""]
     IN /\ log' = [log EXCEPT ![r] = Append(@, raw)]
        /\ CASE b = "api" ->
                  /\ metrics' = [metrics EXCEPT !.customErrorsByType =
                                   Inc(@, CustomErrorLabels(r, error))]
                  /\ reply' = [reply EXCEPT ![r] =
                                 Send(r, error.statusCode, toClientResponse(error))]
                  /\ disp' = [disp EXCEPT ![r] =
                                [branch |-> b, error |-> error, fatal |-> <<>>,
                                 labels |-> << CustomErrorLabels(r, error) >>]]
             [] b = "nonOperational" ->
                  /\ metrics' = metrics
                  /\ reply' = [reply EXCEPT ![r] = Send(r, 500, NonOperationalBody(error))]
                  /\ disp' = [disp EXCEPT ![r] =
                                [branch |-> b, error |-> error,
                                 fatal |-> << toJSON(error) >>, labels |-> <<>>]]
             [] b = "notFound" ->
                  /\ metrics' = metrics
                  /\ reply' = [reply EXCEPT ![r] = Send(r, 404, createNotFoundResponse)]
                  /\ disp' = [disp EXCEPT ![r] =
                                [branch |-> b, error |-> error, fatal |-> <<>>,
                                 labels |-> <<>>]]
             [] b = "validation" ->
                  /\ metrics' = [metrics EXCEPT !.validationErrors =
                                   Inc(@, ValidationLabels(r, error))]
                  /\ reply' = [reply EXCEPT ![r] =
                                 Send(r, 400, createValidationErrorResponse(
                                                "Validation error", error.details))]
                  /\ disp' = [disp EXCEPT ![r] =
                                [branch |-> b, error |-> error, fatal |-> <<>>,
                                 labels |-> << ValidationLabels(r, error) >>]]
             [] b = "fallback" ->
                  /\ metrics' = metrics
                  /\ reply' = [reply EXCEPT ![r] =
                                 Send(r, FallbackStatus(error), FallbackBody(error))]
                  /\ disp' = [disp EXCEPT ![r] =
                                [branch |-> b, error |-> error, fatal |-> <<>>,
                                 labels |-> <<>>]]
  /\ pc' = [pc EXCEPT ![r] = "onResponse"]
  /\ UNCHANGED <<call, ret, req, ctx, res, inv, seen>>

\* metricsResponseMiddleware, the onResponse hook
metricsResponseMiddleware(r) ==
  /\ pc[r] = "onResponse"
  /\ LET labels == [method |-> Route(req[r].op).method,
                    route |-> normalizeRoute(RouteOptionsUrl(r)),
                    status_code |-> reply[r].status]
     IN metrics' = [metrics EXCEPT !.httpRequestDuration = Inc(@, labels),
                                   !.httpRequestsTotal = Inc(@, labels)]
  /\ pc' = [pc EXCEPT ![r] = "done"]
  /\ UNCHANGED <<call, ret, req, ctx, res, inv, reply, seen, log, disp>>

\* ----------------------------------------------------- specifications
Next ==
  \E r \in Reqs :
    \/ OnRequest(r)
    \/ ParseBody(r)
    \/ Validate(r)
    \/ requireApiKey(r)
    \/ ControllerCall(r)
    \/ ServiceCall(r)
    \/ RepositoryCall(r)
    \/ DbSettle(r)
    \/ RepositoryReturn(r)
    \/ ServiceReturn(r)
    \/ ControllerReturn(r)
    \/ errorHandler(r)
    \/ metricsResponseMiddleware(r)

\* NumReqs concurrent requests
Spec == Init /\ [][Next]_vars

\* one request or direct call with any input
SpecOne == InitOne /\ [][Next]_vars

\* the same, every enabled step of the lifecycle eventually taken: the event
\* loop runs each continuation that is ready
SpecOneFair == InitOne /\ [][Next]_vars /\ WF_vars(Next)

\* ------------------------------------------- the error classes on their own
\* messages, contexts and other constructor arguments of the calls below
ErrorMessages == {"Bad request", "E11000 duplicate key"}
ErrorContexts == {"", "internal:secret", "userId:123"}

\* new <cls>(...): a1 and a2 are the leading string arguments of the class's
\* constructor (message; resource, identifier; id; service; message, operation)
NewCall(cls, a1, a2, details, context) ==
  [fn |-> "new", cls |-> cls, a1 |-> a1, a2 |-> a2, details |-> details,
   context |-> context]

ErrorCalls ==
  { NewCall(cls, m, "", <<>>, c) :
      cls \in {"ApiError", "BadRequestError", "UnauthorizedError", "ForbiddenError",
               "ConflictError", "InternalServerError", "ConfigurationError"},
      m \in ErrorMessages, c \in ErrorContexts }
  \cup { NewCall("NotFoundError", "User", id, <<>>, c) :
            id \in {"", IdA}, c \in ErrorContexts }
  \cup { NewCall("InvalidIdError", id, "", <<>>, c) :
            id \in {BadId, "123"}, c \in ErrorContexts }
  \cup { NewCall("ServiceUnavailableError", svc, "", <<>>, c) :
            svc \in {"database", "cache"}, c \in ErrorContexts }
  \cup { NewCall("DatabaseError", m, o, <<>>, c) :
            m \in ErrorMessages, o \in {"insertOne", "findOne"}, c \in ErrorContexts }
  \cup { NewCall("ValidationError", "Validation error", "", d, c) :
            d \in {<<>>, <<"email">>, <<"name", "age">>}, c \in ErrorContexts }

\* the value the constructor call makes
New(c) ==
  CASE c.cls = "ApiError" -> ApiError("ApiError", c.a1, 404, "USER_NOT_FOUND", c.context)
    [] c.cls = "BadRequestError" -> BadRequestError(c.a1, c.context)
    [] c.cls = "UnauthorizedError" -> UnauthorizedError(c.a1, c.context)
    [] c.cls = "ForbiddenError" -> ForbiddenError(c.a1, c.context)
    [] c.cls = "ConflictError" -> ConflictError(c.a1, c.context)
    [] c.cls = "InternalServerError" -> InternalServerError(c.a1, c.context)
    [] c.cls = "ConfigurationError" -> ConfigurationError(c.a1, c.context)
    [] c.cls = "NotFoundError" -> NotFoundError(c.a1, c.a2, c.context)
    [] c.cls = "InvalidIdError" -> InvalidIdError(c.a1, c.context)
    [] c.cls = "ServiceUnavailableError" -> ServiceUnavailableError(c.a1, c.context)
    [] c.cls = "DatabaseError" -> DatabaseError(c.a1, c.a2, c.context)
    [] c.cls = "ValidationError" -> ValidationError(c.a1, c.details, c.context)

InitErrors ==
  /\ req = [r \in Reqs |-> Off]
  /\ InitRest
  /\ call \in ErrorCalls
  /\ ret = NoRet

\* the constructor runs
NewError ==
  /\ call.fn = "new" /\ ret = NoRet
  /\ ret' = [fn |-> "new", v |-> New(call)]
  /\ UNCHANGED <<call, pipeline>>

\* error.toClientResponse() on the constructed ApiError
ClientResponseOf ==
  /\ ret.fn = "new" /\ isApiError(ret.v)
  /\ ret' = [fn |-> "toClientResponse", of |-> ret.v, v |-> toClientResponse(ret.v)]
  /\ UNCHANGED <<call, pipeline>>

\* error.toJSON() on the constructed BaseError
JSONOf ==
  /\ ret.fn = "new" /\ isBaseError(ret.v)
  /\ ret' = [fn |-> "toJSON", of |-> ret.v, v |-> toJSON(ret.v)]
  /\ UNCHANGED <<call, pipeline>>

\* the error guards applied to the constructed value
GuardsOf ==
  /\ ret.fn = "new"
  /\ ret' = [fn |-> "guards", of |-> ret.v,
             v |-> [isApiError |-> isApiError(ret.v),
                    isBaseError |-> isBaseError(ret.v),
                    isOperationalError |-> isOperationalError(ret.v),
                    getStatusCode |-> getStatusCode(ret.v)]]
  /\ UNCHANGED <<call, pipeline>>

NextErrors == NewError \/ ClientResponseOf \/ JSONOf \/ GuardsOf

\* every error class constructed and inspected on its own
SpecErrors == InitErrors /\ [][NextErrors]_vars

\* ------------------------------------------------------- the log sanitizer
\* A string that the sanitizer inspects (an object key) is a sequence of
\* characters.
UpperCase == <<"A", "B", "C", "D", "E", "F", "G", "H", "I", "J", "K", "L", "M",
               "N", "O", "P", "Q", "R", "S", "T", "U", "V", "W", "X", "Y", "Z">>
LowerCase == <<"a", "b", "c", "d", "e", "f", "g", "h", "i", "j", "k", "l", "m",
               "n", "o", "p", "q", "r", "s", "t", "u", "v", "w", "x", "y", "z">>

\* String.prototype.toLowerCase
toLowerCase(s) ==
  [i \in DOMAIN s |->
     IF \E n \in DOMAIN UpperCase : UpperCase[n] = s[i]
       THEN LowerCase[CHOOSE n \in DOMAIN UpperCase : UpperCase[n] = s[i]]
       ELSE s[i]]

\* .replace(/[-_]/g, '')
IsSeparator(c) == c \in {"-", "_"}
replaceSeparators(s) == SelectSeq(s, LAMBDA c : ~IsSeparator(c))

\* String.prototype.includes
includes(s, t) ==
  \E i \in 0..Len(s) : i + Len(t) <= Len(s) /\ SubSeq(s, i + 1, i + Len(t)) = t

SENSITIVE_FIELDS ==
  << <<"p", "a", "s", "s", "w", "o", "r", "d">>,
     <<"a", "p", "i", "k", "e", "y">>,
     <<"a", "p", "i", "-", "k", "e", "y">>,
     <<"t", "o", "k", "e", "n">>,
     <<"s", "e", "c", "r", "e", "t">>,
     <<"a", "u", "t", "h", "o", "r", "i", "z", "a", "t", "i", "o", "n">> >>

\* a JavaScript value: a primitive or function (t is its typeof, null apart),
\* or a reference to an object of the heap
Prim(t, v) == [t |-> t, v |-> v, id |-> 0]
Ref(id) == [t |-> "object", v |-> "", id |-> id]
Null == Prim("null", "")
UndefinedValue == Prim("undefined", "")
Fn == Prim("function", "")

REDACTED == Prim("string", "[REDACTED]")
FASTIFY_OBJECT_MARKER == Prim("string", "[FastifyRequest/Reply]")
CIRCULAR_REFERENCE_MARKER == Prim("string", "[Circular]")

\* the object built is returned inside another one, under the key value
Sanitized_Enveloped(entries) ==
  [t |-> "record", v |-> "", id |-> 0,
   entries |-> << << <<"v", "a", "l", "u", "e">>,
                     [t |-> "record", v |-> "", id |-> 0, entries |-> entries] >> >>]

\* the object the sanitizer builds: its own entries, in insertion order
Sanitized(entries) == [t |-> "record", v |-> "", id |-> 0, entries |-> entries]

\* an object of the heap: its class, whether Array.isArray holds of it, and
\* what Object.entries yields (index keys for an array, nothing for a Date)
Obj(entries) == [class |-> "Object", array |-> FALSE, entries |-> entries]
Arr(entries) == [class |-> "Array", array |-> TRUE, entries |-> entries]
DateObj == [class |-> "Date", array |-> FALSE, entries |-> <<>>]

\* typeof value === 'object' && value !== null
IsObject(value) == value.t \in {"object", "record"}

\* the object a value refers to: one of the heap, or one the sanitizer built
\* (a plain object)
ObjectOf(value, heap) ==
  IF value.t = "record" THEN Obj(value.entries) ELSE heap[value.id]

\* seen.has(value) / seen.add(value).  An object the sanitizer built is held
\* at one position only, so a lookup never finds it.
Has(seenSet, value) == value.t = "object" /\ value.id \in seenSet
Add(seenSet, value) ==
  IF value.t = "object" THEN seenSet \cup {value.id} ELSE seenSet

\* the truthiness of a value
ToBoolean(value) ==
  CASE value.t \in {"null", "undefined"} -> FALSE
    [] value.t = "string" -> value.v # ""
    [] value.t = "number" -> value.v # "0"
    [] OTHER -> TRUE

\* obj[key]: the value of the own property, undefined when there is none
Get(obj, key) ==
  IF \E i \in DOMAIN obj.entries : obj.entries[i][1] = key
    THEN obj.entries[CHOOSE i \in DOMAIN obj.entries : obj.entries[i][1] = key][2]
    ELSE UndefinedValue

\* the keys the sanitizer looks up by name
KeyChild == <<"c", "h", "i", "l", "d">>
KeyInfo == <<"i", "n", "f", "o">>
KeyRaw == <<"r", "a", "w">>
KeyLog == <<"l", "o", "g">>
KeyRequest == <<"r", "e", "q", "u", "e", "s", "t">>
KeyHeaders == <<"h", "e", "a", "d", "e", "r", "s">>

isLoggerObject(value, heap) ==
  /\ IsObject(value)
  /\ Get(ObjectOf(value, heap), KeyChild).t = "function"
  /\ Get(ObjectOf(value, heap), KeyInfo).t = "function"

isFastifyObject(value, heap) ==
  /\ IsObject(value)
  /\ \/ ToBoolean(Get(ObjectOf(value, heap), KeyRaw))
     \/ ToBoolean(Get(ObjectOf(value, heap), KeyLog))
     \/ ToBoolean(Get(ObjectOf(value, heap), KeyRequest))

\* the key compared as written, neither lower-cased nor stripped
isSensitiveKey_AsWritten(key) ==
  \E f \in DOMAIN SENSITIVE_FIELDS : includes(key, SENSITIVE_FIELDS[f])

isSensitiveKey(key) ==
  LET normalizedKey == replaceSeparators(toLowerCase(key))
  IN \E f \in DOMAIN SENSITIVE_FIELDS :
       includes(normalizedKey, replaceSeparators(toLowerCase(SENSITIVE_FIELDS[f])))

\* the entries are written into the object they were read from
NewObject_InPlace(source) == source.id

\* const sanitized = {}: the object the entries are written to is a new one,
\* outside the heap of the caller (0), whatever the source is
NewObject(source) == 0

\* sanitized[key] = ..., for every key: the heap once the target is written
Assign(heap, target, entries) ==
  IF target = 0 THEN heap ELSE [heap EXCEPT ![target].entries = entries]

sanitizeHeaders(headers) ==
  Sanitized([i \in DOMAIN headers.entries |->
               << headers.entries[i][1],
                  IF isSensitiveKey(headers.entries[i][1]) THEN REDACTED
                  ELSE headers.entries[i][2] >>])

\* a traversal step: the object whose entries were iterated and what was
\* built from it
Visit(id, out) == [id |-> id, out |-> out]

\* sanitizeValue(value, seen): the result, the WeakSet afterwards, the
\* objects traversed, in order, and the heap afterwards.  sanitizeEntries is
\* the for-of loop over Object.entries(obj).
RECURSIVE sanitizeValue(_, _, _)
RECURSIVE sanitizeEntries(_, _, _)
sanitizeEntries(entries, seenSet, heap) ==
  IF entries = <<>>
    THEN [entries |-> <<>>, seen |-> seenSet, visited |-> <<>>, heap |-> heap]
  ELSE LET Both(key, first, rest) ==
             [entries |-> << <<key, first.out>> >> \o rest.entries,
              seen |-> rest.seen,
              visited |-> first.visited \o rest.visited,
              heap |-> rest.heap]
           Then(key, first) ==
             Both(key, first, sanitizeEntries(Tail(entries), first.seen, first.heap))
           Built(val, built) ==
             [out |-> built, seen |-> seenSet,
              visited |-> << Visit(val.id, built) >>,
              heap |-> Assign(heap, NewObject(val), built.entries)]
           First(key, val) ==
             IF isSensitiveKey(key)
               THEN [out |-> REDACTED, seen |-> seenSet, visited |-> <<>>,
                     heap |-> heap]
             ELSE IF key = KeyHeaders /\ IsObject(val)
               THEN Built(val, sanitizeHeaders(ObjectOf(val, heap)))
             ELSE IF IsObject(val) /\ ~ObjectOf(val, heap).array
               THEN sanitizeValue(val, seenSet, heap)
             ELSE [out |-> val, seen |-> seenSet, visited |-> <<>>, heap |-> heap]
       IN Then(Head(entries)[1], First(Head(entries)[1], Head(entries)[2]))

sanitizeValue(value, seenSet, heap) ==
  IF ~IsObject(value)
    THEN [out |-> value, seen |-> seenSet, visited |-> <<>>, heap |-> heap]
  ELSE IF Has(seenSet, value)
    THEN [out |-> CIRCULAR_REFERENCE_MARKER, seen |-> seenSet, visited |-> <<>>,
          heap |-> heap]
  ELSE IF isFastifyObject(value, heap)
    THEN [out |-> FASTIFY_OBJECT_MARKER, seen |-> Add(seenSet, value),
          visited |-> <<>>, heap |-> heap]
  ELSE LET Built(e) ==
             [out |-> Sanitized(e.entries), seen |-> e.seen,
              visited |-> << Visit(value.id, Sanitized(e.entries)) >> \o e.visited,
              heap |-> Assign(e.heap, NewObject(value), e.entries)]
       IN Built(sanitizeEntries(ObjectOf(value, heap).entries,
                                Add(seenSet, value), heap))

\* args.filter(arg => !isLoggerObject(arg)).map(arg => sanitizeValue(arg, seen))
RECURSIVE sanitizeArgs(_, _, _)
sanitizeArgs(args, seenSet, heap) ==
  IF args = <<>> THEN [out |-> <<>>, visited |-> <<>>, heap |-> heap]
  ELSE IF isLoggerObject(Head(args), heap) THEN sanitizeArgs(Tail(args), seenSet, heap)
  ELSE LET Both(first, rest) ==
             [out |-> << first.out >> \o rest.out,
              visited |-> first.visited \o rest.visited,
              heap |-> rest.heap]
           Then(first) ==
             Both(first, sanitizeArgs(Tail(args), first.seen, first.heap))
       IN Then(sanitizeValue(Head(args), seenSet, heap))

sanitizeLogArgs(args, heap) == sanitizeArgs(args, {}, heap)

\* ---- the arguments the sanitizer is run on
KeyName == <<"n", "a", "m", "e">>
KeyInner == <<"i", "n", "n", "e", "r">>
KeyItems == <<"i", "t", "e", "m", "s">>
KeySelf == <<"s", "e", "l", "f">>
KeyMeta == <<"m", "e", "t", "a">>
KeyOther == <<"o", "t", "h", "e", "r">>
Key0 == <<"0">>

\* keys under test: the first eight match a sensitive field once normalized
TestKeys ==
  { <<"p", "a", "s", "s", "w", "o", "r", "d">>,
    <<"u", "s", "e", "r", "P", "a", "s", "s", "w", "o", "r", "d">>,
    <<"A", "P", "I", "_", "K", "E", "Y">>,
    <<"x", "-", "a", "p", "i", "-", "k", "e", "y">>,
    <<"A", "u", "t", "h", "o", "r", "i", "z", "a", "t", "i", "o", "n">>,
    <<"r", "e", "f", "r", "e", "s", "h", "_", "T", "o", "k", "e", "n">>,
    <<"s", "e", "c", "r", "e", "t", "a", "r", "y">>,
    <<"p", "a", "s", "s", "_", "w", "o", "r", "d">>,
    <<"a", "u", "t", "h">>,
    <<"e", "m", "a", "i", "l">>,
    <<"k", "e", "y">> }

\* object 4 is the nested object a key under test may hold; 5 is an array,
\* 6 a Date
TestValues ==
  { Prim("string", "hunter2"), Prim("string", ""), Prim("number", "0"),
    Null, UndefinedValue, Ref(4), Ref(5), Ref(6) }

Shapes ==
  {"top", "nested", "headers", "insideHeaders", "array", "topArray",
   "fastify", "logger", "cycle", "twice", "siblings", "headersCycle",
   "arrayCycle", "arg"}

\* the heap and argument list for the entry (k, v) placed as the shape says
SanitizerCall(shape, k, v) ==
  LET leaf == Obj(<< <<KeyInner, Prim("string", "x")>> >>)
      list == Arr(<< <<Key0, Prim("string", "x")>> >>)
      kv == Obj(<< <<k, v>>, <<KeyName, Prim("string", "n")>> >>)
      none == Obj(<<>>)
      h(o1, o2, o3) == <<o1, o2, o3, leaf, list, DateObj>>
  IN CASE shape = "top" ->
            [fn |-> "sanitizeLogArgs", args |-> << Ref(1) >>, heap |-> h(kv, none, none)]
       [] shape = "nested" ->
            [fn |-> "sanitizeLogArgs", args |-> << Prim("string", "id"), Ref(1) >>,
             heap |-> h(Obj(<< <<KeyName, Prim("string", "n")>>, <<KeyMeta, Ref(2)>> >>),
                        kv, none)]
       [] shape = "headers" ->
            [fn |-> "sanitizeLogArgs", args |-> << Ref(1) >>,
             heap |-> h(Obj(<< <<KeyHeaders, Ref(2)>> >>), kv, none)]
       [] shape = "insideHeaders" ->
            [fn |-> "sanitizeLogArgs", args |-> << Ref(1) >>,
             heap |-> h(Obj(<< <<KeyHeaders, Ref(2)>> >>),
                        Obj(<< <<KeyMeta, Ref(3)>> >>), kv)]
       [] shape = "array" ->
            [fn |-> "sanitizeLogArgs", args |-> << Ref(1) >>,
             heap |-> h(Obj(<< <<KeyItems, Ref(2)>> >>),
                        Arr(<< <<Key0, Ref(3)>> >>), kv)]
       [] shape = "topArray" ->
            [fn |-> "sanitizeLogArgs", args |-> << Ref(1) >>,
             heap |-> h(Arr(<< <<Key0, Ref(2)>> >>), kv, none)]
       [] shape = "fastify" ->
            [fn |-> "sanitizeLogArgs", args |-> << Ref(1) >>,
             heap |-> h(Obj(<< <<k, v>>, <<KeyRaw, Prim("string", "socket")>> >>),
                        none, none)]
       [] shape = "logger" ->
            [fn |-> "sanitizeLogArgs", args |-> << Ref(1), Ref(2) >>,
             heap |-> h(Obj(<< <<KeyChild, Fn>>, <<KeyInfo, Fn>>, <<k, v>> >>),
                        kv, none)]
       [] shape = "cycle" ->
            [fn |-> "sanitizeLogArgs", args |-> << Ref(1) >>,
             heap |-> h(Obj(<< <<KeySelf, Ref(1)>>, <<KeyMeta, Ref(2)>> >>),
                        Obj(<< <<k, v>>, <<KeySelf, Ref(1)>> >>), none)]
       [] shape = "twice" ->
            [fn |-> "sanitizeLogArgs", args |-> << Ref(1), Ref(1) >>,
             heap |-> h(kv, none, none)]
       [] shape = "siblings" ->
            [fn |-> "sanitizeLogArgs", args |-> << Ref(1) >>,
             heap |-> h(Obj(<< <<KeyMeta, Ref(2)>>, <<KeyOther, Ref(2)>> >>),
                        kv, none)]
       [] shape = "headersCycle" ->
            [fn |-> "sanitizeLogArgs", args |-> << Ref(1) >>,
             heap |-> h(Obj(<< <<k, v>>, <<KeyHeaders, Ref(1)>> >>), none, none)]
       [] shape = "arrayCycle" ->
            [fn |-> "sanitizeLogArgs", args |-> << Ref(1) >>,
             heap |-> h(Obj(<< <<k, v>>, <<KeyItems, Ref(2)>> >>),
                        Arr(<< <<Key0, Ref(1)>> >>), none)]
       [] shape = "arg" ->
            [fn |-> "sanitizeLogArgs", args |-> << v, Ref(1) >>,
             heap |-> h(kv, none, none)]

SanitizerCalls ==
  { SanitizerCall(shape, k, v) : shape \in Shapes, k \in TestKeys, v \in TestValues }

InitSanitize ==
  /\ req = [r \in Reqs |-> Off]
  /\ InitRest
  /\ call \in SanitizerCalls
  /\ ret = NoRet

\* sanitizeLogArgs(args) runs
Sanitize ==
  /\ call.fn = "sanitizeLogArgs" /\ ret = NoRet
  /\ LET s == sanitizeLogArgs(call.args, call.heap)
     IN ret' = [fn |-> "sanitizeLogArgs", v |-> s.out, visited |-> s.visited,
                heap |-> s.heap]
  /\ UNCHANGED <<call, pipeline>>

\* sanitizeLogArgs runs on what it returned
SanitizeAgain ==
  /\ ret.fn = "sanitizeLogArgs"
  /\ LET s == sanitizeLogArgs(ret.v, ret.heap)
     IN ret' = [fn |-> "sanitizeLogArgs(sanitizeLogArgs)", first |-> ret.v,
                v |-> s.out, visited |-> s.visited, heap |-> s.heap]
  /\ UNCHANGED <<call, pipeline>>

\* log-method.decorator.ts line 77, after the entry log of line 72: the
\* wrapped method is applied to args
ApplyOriginal ==
  /\ ret.fn = "sanitizeLogArgs"
  /\ ret' = [fn |-> "originalMethod", logged |-> ret.v,
             recvArgs |-> LogMethodApply("this", call.args).args,
             heap |-> ret.heap]
  /\ UNCHANGED <<call, pipeline>>

NextSanitize == Sanitize \/ SanitizeAgain \/ ApplyOriginal

\* the sanitizer run on its own
SpecSanitize == InitSanitize /\ [][NextSanitize]_vars

\* ------------------------------------------- the @LogMethod wrapper alone
\* One call of a wrapped method, with what its collaborators do given as
\* part of the call: whether a request logger is there, whether
\* sanitizeLogArgs, the entry log, the exit log or the error log throws, and
\* how the wrapped method settles.

\* what argument sanitisation or a logger call may throw
SanitizerFault ==
  ForeignError("TypeError", "Cannot convert undefined or null to object", Undefined, FALSE, "")
LoggerFault ==
  ForeignError("Error", "write EPIPE", Undefined, FALSE, "")

WrapperLayers == {"service", "repository"}

WrapperOutcomes ==
  { Value("user"), Value("null"), Thrown(DriverError),
    Thrown(NotFoundError("User", "42", "")) }

WrapperCalls ==
  [ fn : {"LogMethod"}, layer : WrapperLayers, logger : {NoLogger, RequestLog(1)},
    sanitizeThrows : BOOLEAN, entryThrows : BOOLEAN, exitThrows : BOOLEAN,
    errorThrows : BOOLEAN, method : WrapperOutcomes ]

InitLogMethod ==
  /\ req = [r \in Reqs |-> Off]
  /\ InitRest
  /\ call \in WrapperCalls
  /\ ret = NoRet

\* lines 69-75 with the calls that may throw: sanitizeLogArgs(args) is
\* evaluated first, then methodLogger.info is called; neither runs without a
\* logger
LogMethodEntry(c) ==
  LET b == LogMethodBefore(c.logger, ClassName(c.layer), MethodName(c.layer, "getUserById"))
  IN IF c.logger # NoLogger /\ c.sanitizeThrows
       THEN [logs |-> <<>>, warns |-> 0, fault |-> SanitizerFault]
     ELSE IF c.logger # NoLogger /\ c.entryThrows
       THEN [logs |-> <<>>, warns |-> 0, fault |-> LoggerFault]
     ELSE b

\* lines 88-99, the catch block: the error log, which may throw out of the
\* block, then the two samples, then throw error
LogMethodCatch(c, w, error) ==
  LET cls == ClassName(c.layer)
      method == MethodName(c.layer, "getUserById")
  IN IF c.logger # NoLogger /\ c.errorThrows
       THEN [w EXCEPT !.st = "rejected", !.out = Thrown(LoggerFault)]
     ELSE [w EXCEPT
             !.st = "rejected",
             !.out = LogMethodResult(Thrown(error)),
             !.logs = @ \o LogMethodAfterLog(c.logger, cls, method, Thrown(error)),
             !.obs = @ \o LogMethodObserve(cls, method, Thrown(error)),
             !.incs = @ \o LogMethodInc(cls, method, Thrown(error))]

\* lines 78-87, the rest of the try block after the awaited call returned:
\* the exit log, which may throw into the catch block, then the two samples,
\* then return result
LogMethodExit(c, w, result) ==
  LET cls == ClassName(c.layer)
      method == MethodName(c.layer, "getUserById")
  IN IF c.logger # NoLogger /\ c.exitThrows
       THEN LogMethodCatch(c, w, LoggerFault)
     ELSE [w EXCEPT
             !.st = "resolved",
             !.out = LogMethodResult(result),
             !.logs = @ \o LogMethodAfterLog(c.logger, cls, method, result),
             !.obs = @ \o LogMethodObserve(cls, method, result),
             !.incs = @ \o LogMethodInc(cls, method, result)]

\* the wrapper is called: lines 65-77, up to the await; when the entry log
\* throws, the catch block runs at once
WrapperCall ==
  /\ call.fn = "LogMethod" /\ ret = NoRet
  /\ LET b == LogMethodEntry(call)
         w == [fn |-> "LogMethod", st |-> "awaiting", calls |-> 0,
               out |-> Pending, logs |-> b.logs, warns |-> b.warns,
               obs |-> <<>>, incs |-> <<>>]
     IN ret' = IF b.fault = NoError
                 THEN [w EXCEPT !.calls = 1]
                 ELSE LogMethodCatch(call, w, b.fault)
  /\ UNCHANGED <<call, pipeline>>

\* the awaited call settles and the wrapper resumes
WrapperResume ==
  /\ ret.fn = "LogMethod" /\ ret.st = "awaiting"
  /\ ret' = IF call.method.kind = "error"
              THEN LogMethodCatch(call, ret, call.method.err)
              ELSE LogMethodExit(call, ret, call.method)
  /\ UNCHANGED <<call, pipeline>>

NextLogMethod == WrapperCall \/ WrapperResume

SpecLogMethod == InitLogMethod /\ [][NextLogMethod]_vars

\* ------------------------------------------- configuration and startup
\* process.env[key]: unset, or a string (its characters)
Unset == [set |-> FALSE, value |-> <<>>]
EnvValue(chars) == [set |-> TRUE, value |-> chars]

\* the optional defaultValue parameter
NoDefault == [given |-> FALSE, value |-> <<>>]
Default(v) == [given |-> TRUE, value |-> v]

NaN == -2

Digits == <<"0", "1", "2", "3", "4", "5", "6", "7", "8", "9">>
IsDigit(c) == \E i \in DOMAIN Digits : Digits[i] = c
DigitValue(c) == (CHOOSE i \in DOMAIN Digits : Digits[i] = c) - 1

\* the string without the white space at its ends
RECURSIVE Trim(_)
Trim(chars) ==
  IF chars = <<>> THEN chars
  ELSE IF Head(chars) = " " THEN Trim(Tail(chars))
  ELSE IF chars[Len(chars)] = " " THEN Trim(SubSeq(chars, 1, Len(chars) - 1))
  ELSE chars

RECURSIVE Decimal(_, _)
Decimal(chars, acc) ==
  IF chars = <<>> THEN acc
  ELSE IF IsDigit(Head(chars))
    THEN Decimal(Tail(chars), acc * 10 + DigitValue(Head(chars)))
  ELSE NaN

\* Number(value) of a string: white space trimmed, the empty string is 0, a
\* decimal numeral is its value, anything else is NaN
Number(chars) ==
  IF Trim(chars) = <<>> THEN 0 ELSE Decimal(Trim(chars), 0)

getEnvString(value, key, defaultValue) ==
  IF ~value.set
    THEN IF defaultValue.given THEN Value(defaultValue.value)
         ELSE Thrown(ConfigurationError(
                "Environment variable " \o key \o " is required but not set", "key"))
    ELSE Value(value.value)

\* the converted number returned without the isNaN test
getEnvNumber_Unchecked(value, key, defaultValue) ==
  IF ~value.set
    THEN IF defaultValue.given THEN Value(defaultValue.value)
         ELSE Thrown(ConfigurationError(
                "Environment variable " \o key \o " is required but not set", "key"))
    ELSE Value(Number(value.value))

getEnvNumber(value, key, defaultValue) ==
  IF ~value.set
    THEN IF defaultValue.given THEN Value(defaultValue.value)
         ELSE Thrown(ConfigurationError(
                "Environment variable " \o key \o " is required but not set", "key"))
    ELSE IF Number(value.value) = NaN
      THEN Thrown(ConfigurationError(
             "Environment variable " \o key \o " must be a valid number", "key+value"))
    ELSE Value(Number(value.value))

Production == <<"p", "r", "o", "d", "u", "c", "t", "i", "o", "n">>
Development == <<"d", "e", "v", "e", "l", "o", "p", "m", "e", "n", "t">>

\* METRICS_PORT: the port of the metrics endpoint, PORT when not set
EnvMetricsPort(p, port) ==
  getEnvNumber(p.METRICS_PORT, "METRICS_PORT", Default(port))

\* export const env = { ... }: the calls in the order written; the first one
\* that throws ends the evaluation of the module
EnvEntries(p) ==
  LET port == getEnvNumber(p.PORT, "PORT", Default(3000))
  IN << <<"NODE_ENV", getEnvString(p.NODE_ENV, "NODE_ENV", Default(Development))>>,
        <<"PORT", port>>,
        <<"METRICS_PORT",
          IF port.kind = "value" THEN EnvMetricsPort(p, port.val) ELSE port>>,
        <<"MONGODB_MAX_POOL_SIZE",
          getEnvNumber(p.MONGODB_MAX_POOL_SIZE, "MONGODB_MAX_POOL_SIZE", Default(10))>>,
        <<"DB_CERT_KEY_PATH",
          getEnvString(p.DB_CERT_KEY_PATH, "DB_CERT_KEY_PATH", Default(<<>>))>> >>

Env(p) ==
  LET e == EnvEntries(p)
      failed == {i \in DOMAIN e : e[i][2].kind = "error"}
  IN IF failed # {}
       THEN e[CHOOSE i \in failed : \A j \in failed : i <= j][2]
       ELSE Value([NODE_ENV |-> e[1][2].val, PORT |-> e[2][2].val,
                   METRICS_PORT |-> e[3][2].val,
                   MONGODB_MAX_POOL_SIZE |-> e[4][2].val,
                   DB_CERT_KEY_PATH |-> e[5][2].val])

\* buildMongoOptions(): certificate authentication in production
buildMongoOptions(e) ==
  IF e.NODE_ENV = Production
    THEN IF e.DB_CERT_KEY_PATH = <<>>
           THEN Thrown(ConfigurationError(
                  "Certificate auth mode requires DB_CERT_KEY_PATH to be set", "nodeEnv"))
           ELSE Value([maxPoolSize |-> e.MONGODB_MAX_POOL_SIZE, tls |-> TRUE,
                       tlsCertificateKeyFile |-> e.DB_CERT_KEY_PATH])
    ELSE Value([maxPoolSize |-> e.MONGODB_MAX_POOL_SIZE, tls |-> FALSE,
                tlsCertificateKeyFile |-> <<>>])

\* a Fastify instance: the URLs it has a GET route for and the port it
\* listens on (Undefined: not listening)
NoServer == [routes |-> {}, port |-> Undefined]

\* listen({ port: 0 }) binds a port the system chooses
EphemeralPort == 49152
Bind(port) == IF port = 0 THEN EphemeralPort ELSE port

NoResponse == [port |-> Undefined, url |-> "", status |-> 0, phase |-> ""]

\* the environments the process is started in
ProcessEnvs ==
  [ NODE_ENV : {Unset, EnvValue(Production), EnvValue(Development)},
    PORT : {Unset, EnvValue(<<"3", "0", "0", "0">>), EnvValue(<<"a", "b", "c">>),
            EnvValue(<<>>)},
    METRICS_PORT : {Unset, EnvValue(<<"3", "0", "0", "0">>),
                    EnvValue(<<"9", "0", "9", "0">>), EnvValue(<<"9", "0", "x">>)},
    MONGODB_MAX_POOL_SIZE : {Unset, EnvValue(<<"t", "e", "n">>)},
    DB_CERT_KEY_PATH : {Unset, EnvValue(<<"/", "k", "e", "y", ".", "p", "e", "m">>)} ]

\* direct calls of the two helpers, with and without a default
GetEnvCalls ==
  [ fn : {"getEnvString", "getEnvNumber"},
    value : {Unset, EnvValue(<<"4", "2">>), EnvValue(<<"x">>), EnvValue(<<>>)},
    hasDefault : BOOLEAN ]

InitStartup ==
  /\ req = [r \in Reqs |-> Off]
  /\ InitRest
  /\ call \in [fn : {"server"}, env : ProcessEnvs] \cup GetEnvCalls
  /\ ret = NoRet

\* getEnvString(key) / getEnvNumber(key), called on its own
GetEnv ==
  /\ call.fn \in {"getEnvString", "getEnvNumber"} /\ ret = NoRet
  /\ ret' = [fn |-> call.fn,
             v |-> IF call.fn = "getEnvString"
                     THEN getEnvString(call.value, "KEY",
                            IF call.hasDefault THEN Default(<<"d">>) ELSE NoDefault)
                     ELSE getEnvNumber(call.value, "KEY",
                            IF call.hasDefault THEN Default(7) ELSE NoDefault)]
  /\ UNCHANGED <<call, pipeline>>

\* node dist/server.js: the modules server.ts imports are evaluated, env.ts
\* and the database configuration among them; a throw ends the process
\* before start() is called
Load ==
  /\ call.fn = "server" /\ ret = NoRet
  /\ LET e == Env(call.env)
         o == IF e.kind = "value" THEN buildMongoOptions(e.val) ELSE e
         failed == e.kind = "error" \/ o.kind = "error"
     IN ret' = [fn |-> "server",
                phase |-> IF failed THEN "crashed" ELSE "loaded",
                env |-> e,
                error |-> IF e.kind = "error" THEN e.err
                          ELSE IF o.kind = "error" THEN o.err ELSE NoError,
                main |-> NoServer, metricsServer |-> NoServer,
                last |-> NoResponse]
  /\ UNCHANGED <<call, pipeline>>

\* the routes buildApp registers on the main instance: the metrics route and
\* those of registerRoutes
MainRoutes == {"/metrics", "/health", "/api/users"}

\* the routes metricsRoutes registers
MetricsRoutes == {"/metrics"}

\* start(): fastify = await buildApp()
BuildApp ==
  /\ ret.fn = "server" /\ ret.phase = "loaded"
  /\ ret' = [ret EXCEPT !.phase = "built", !.main.routes = MainRoutes]
  /\ UNCHANGED <<call, pipeline>>

\* start(): await fastify.listen({ port: serverConfig.port, ... })
Listen ==
  /\ ret.fn = "server" /\ ret.phase = "built"
  /\ ret' = [ret EXCEPT !.phase = "listening", !.main.port = Bind(ret.env.val.PORT)]
  /\ UNCHANGED <<call, pipeline>>

\* start(): the separate metrics server, if on a different port
StartMetricsServer ==
  /\ ret.fn = "server" /\ ret.phase = "listening"
  /\ ret' = IF ret.env.val.METRICS_PORT # ret.env.val.PORT
              THEN [ret EXCEPT !.phase = "started",
                               !.metricsServer = [routes |-> MetricsRoutes,
                                                  port |-> Bind(ret.env.val.METRICS_PORT)]]
              ELSE [ret EXCEPT !.phase = "started"]
  /\ UNCHANGED <<call, pipeline>>

\* what a GET of the url on the port is answered with: 0 when nothing
\* listens there
StatusOf(w, port, url) ==
  LET servers == {s \in {w.main, w.metricsServer} : s.port = port}
  IN IF servers = {} THEN 0
     ELSE IF \E s \in servers : url \in s.routes THEN 200
     ELSE 404

\* a client sends GET url to a port
Fetch(port, url) ==
  /\ ret.fn = "server" /\ ret.phase \in {"listening", "started"}
  /\ ret.last = NoResponse
  /\ ret' = [ret EXCEPT !.last = [port |-> port, url |-> url,
                                  status |-> StatusOf(ret, port, url),
                                  phase |-> ret.phase]]
  /\ UNCHANGED <<call, pipeline>>

NextStartup ==
  \/ GetEnv
  \/ Load
  \/ BuildApp
  \/ Listen
  \/ StartMetricsServer
  \/ \E port \in {3000, 9090, EphemeralPort}, url \in {"/metrics", "/health"} :
       Fetch(port, url)

SpecStartup == InitStartup /\ [][NextStartup]_vars

\* ------------------------------------------------------- health routes
\* One request to a health route, with the state of its collaborators given
\* as part of the call: what container.cradle.db yields, what fastify.mongo
\* is, and how the ping settles.

HealthCalls ==
  [ fn : {"health"},
    url : {"/health/live", "/health/ready", "/health"},
    source : {"health.routes.ts", "part_016"},
    cradleDb : {"db", "unregistered", "undefined"},
    mongo : {"undefined", "noDb", "db"},
    ping : {"ok1", "ok0", "rejects"} ]

InitHealth ==
  /\ req = [r \in Reqs |-> Off]
  /\ InitRest
  /\ call \in HealthCalls
  /\ ret = NoRet

\* the checks object a handler starts from
InitialChecks == [database |-> "disconnected", container |-> "not_initialized"]

\* container.cradle.db: resolving a name that was never registered throws
CradleDb(c) ==
  IF c.cradleDb = "unregistered"
    THEN Thrown(ForeignError("AwilixResolutionError", "Could not resolve 'db'.",
                             Undefined, FALSE, ""))
    ELSE Value(c.cradleDb)

\* what the readiness handler throws when fastify.mongo?.db is missing
DatabaseMissing(c) ==
  IF c.source = "part_016" THEN ServiceUnavailableError("database", "")
  ELSE ForeignError("Error", "MongoDB database not available", Undefined, FALSE, "")

\* reply.code(...).send({ status, checks, error })
HealthReply(code, status, checks, error) ==
  [fn |-> "health", st |-> "replied", code |-> code, status |-> status,
   checks |-> checks, error |-> error]

\* the catch block of a handler
HealthCatch(checks, error) == HealthReply(503, "unhealthy", checks, error.message)

\* the handler waits for fastify.mongo.db.admin().ping()
Pinging(checks) ==
  [fn |-> "health", st |-> "pinging", code |-> 0, status |-> "",
   checks |-> checks, error |-> ""]

\* the container check both handlers start with: the checks object
\* afterwards, or what was thrown
ContainerCheck(c) ==
  IF CradleDb(c).kind = "error" THEN CradleDb(c)
  ELSE Value([InitialChecks EXCEPT
                !.container = IF CradleDb(c).val = "db" THEN "connected" ELSE @])

\* GET /health/ready up to the ping
ReadyStart(c) ==
  LET k == ContainerCheck(c)
  IN IF k.kind = "error" THEN HealthCatch(InitialChecks, k.err)
     ELSE IF c.mongo # "db" THEN HealthCatch(k.val, DatabaseMissing(c))
     ELSE Pinging(k.val)

\* GET /health/ready after the ping: the end of the try block
ReadyDone(checks) == HealthReply(200, "healthy", checks, "")

\* GET /health up to the ping
HealthStart(c) ==
  LET k == ContainerCheck(c)
  IN IF k.kind = "error" THEN HealthCatch(InitialChecks, k.err)
     ELSE IF c.mongo = "db" THEN Pinging(k.val)
     ELSE HealthReply(503, "degraded", k.val, "")

\* GET /health after the ping
HealthDone(checks) ==
  IF checks.database = "connected" /\ checks.container = "connected"
    THEN HealthReply(200, "healthy", checks, "")
    ELSE HealthReply(503, "degraded", checks, "")

\* a health route is requested: the handler runs to its reply or to the ping
HealthRequest ==
  /\ call.fn = "health" /\ ret = NoRet
  /\ ret' = CASE call.url = "/health/live" -> HealthReply(200, "healthy", InitialChecks, "")
              [] call.url = "/health/ready" -> ReadyStart(call)
              [] call.url = "/health" -> HealthStart(call)
  /\ UNCHANGED <<call, pipeline>>

\* the ping settles and the handler resumes
PingSettles ==
  /\ ret.fn = "health" /\ ret.st = "pinging"
  /\ LET checks == IF call.ping = "ok1"
                     THEN [ret.checks EXCEPT !.database = "connected"]
                     ELSE ret.checks
     IN ret' = IF call.ping = "rejects"
                 THEN HealthCatch(ret.checks,
                                  ForeignError("MongoNetworkError", "connection closed",
                                               Undefined, FALSE, ""))
               ELSE IF call.url = "/health/ready" THEN ReadyDone(checks)
               ELSE HealthDone(checks)
  /\ UNCHANGED <<call, pipeline>>

NextHealth == HealthRequest \/ PingSettles

SpecHealth == InitHealth /\ [][NextHealth]_vars

\* ================================================================ claims
Settled(i) == i.st \in {"returned", "threw"}

Invocations == Reqs \X Layers

\* the request is inside its route handler: the controller call is open
InHandler(r) == inv[r]["controller"].st = "open"

Dispatched(r) == disp[r].branch # ""

RangeOf(seq) == {seq[k] : k \in DOMAIN seq}

\* C1: Isolation.  Whatever getRequestLogger()/getRequestId() yield inside the
\* call chain of a request, and whatever logger a log line of that chain is
\* written with, is the logger and id of that very request, never those of a
\* request handled concurrently.
C1_Isolation ==
  \A r \in Reqs :
    /\ \A s \in seen[r] :
         s # NoStore => s.logger = RequestLog(r) /\ s.reqId = genReqId(r)
    /\ \A k \in DOMAIN log[r] : log[r][k].logger = RequestLog(r)

\* two requests with distinct ids are inside their handlers at the same time
\* and each has read its store
C1_Witness ==
  \E r1, r2 \in Reqs :
    /\ r1 # r2
    /\ InHandler(r1) /\ InHandler(r2)
    /\ genReqId(r1) # genReqId(r2)
    /\ requestContextStore(r1) \in seen[r1]
    /\ requestContextStore(r2) \in seen[r2]

\* C2: Propagation.  Every instrumented method called by a request's route
\* handler, for a request with or without a body, reads through
\* getRequestLogger()/getRequestId() exactly the store bound in the onRequest
\* hook, never an absent one.
C2_Propagation ==
  \A r \in Reqs :
    req[r].origin = "http" =>
      \A s \in seen[r] : s = [logger |-> RequestLog(r), reqId |-> genReqId(r)]

DirectOutcome(r) ==
  IF ServiceBody(r).kind # "none" THEN ServiceBody(r)
  ELSE RepositoryBody(req[r].op, req[r].db)

C6_NoContext ==
  /\ \A c \in Invocations :
       LET i == inv[c[1]][c[2]]
       IN i.st # "idle" /\ i.logger = NoLogger =>
            /\ i.logs = <<>>
            /\ i.calls = 1
            /\ Settled(i) => i.out = i.orig /\ i.out.kind # "none"
  /\ \A r \in Reqs :
       req[r].origin = "direct" =>
         /\ log[r] = <<>>
         /\ pc[r] = "done" => res[r] = DirectOutcome(r)

\* a direct call outside any request has returned a value, with no logger at
\* either wrapper
C6_Witness ==
  \E r \in Reqs :
    /\ req[r].origin = "direct" /\ pc[r] = "done"
    /\ inv[r]["service"].st = "returned" /\ inv[r]["service"].logger = NoLogger
    /\ inv[r]["repository"].st = "returned" /\ inv[r]["repository"].logger = NoLogger

\* C7: For an ApiError the handler answers with error.statusCode and
\* error.toClientResponse(), and increments the error counter once, labelled
\* with error.code and the route pattern of the request.
C7_ApiErrorDispatch ==
  \A r \in Reqs :
    Dispatched(r) /\ disp[r].error.isApi =>
      /\ reply[r] = [sent |-> 1, status |-> disp[r].error.statusCode,
                     body |-> toClientResponse(disp[r].error)]
      /\ Len(disp[r].labels) = 1
      /\ disp[r].labels[1].error_code = disp[r].error.code
      /\ disp[r].labels[1].endpoint = Route(req[r].op).pattern
      /\ BagIn(disp[r].labels[1], metrics.customErrorsByType)

\* C8: For a BaseError with isOperational = false the handler logs toJSON()
\* (context and stack included) at fatal and answers 500 with the generic
\* body; message, code and context of the error are not in the response.
C8_NonOperational ==
  \A r \in Reqs :
    Dispatched(r) /\ disp[r].error.isBase /\ ~disp[r].error.isOperational =>
      /\ disp[r].fatal = << toJSON(disp[r].error) >>
      /\ {"context", "stack"} \subseteq DOMAIN disp[r].fatal[1]
      /\ reply[r] = [sent |-> 1, status |-> 500,
                     body |-> [success |-> FALSE, error |-> "Internal server error"]]
      /\ reply[r].body.error \notin
           {disp[r].error.message, disp[r].error.code, disp[r].error.context}

\* a ConfigurationError has been dispatched
C8_Witness ==
  \E r \in Reqs :
    /\ Dispatched(r)
    /\ disp[r].error.cls = "ConfigurationError"
    /\ reply[r].sent = 1

\* a value that is not an operational classified error: a non-operational
\* BaseError, or a defect carrying no class of the taxonomy and no framework
\* signal (a plain Error, a TypeError, a driver error)
NonOperationalValue(error) ==
  \/ error.isBase /\ ~error.isOperational
  \/ ~error.isBase /\ error.statusCode = Undefined /\ ~error.validation

\* C9: Details of a non-operational error never reach the client: the
\* response is the generic 500 body whatever the value's message.
C9_NoLeak ==
  \A r \in Reqs :
    Dispatched(r) /\ NonOperationalValue(disp[r].error) =>
      reply[r] = [sent |-> 1, status |-> 500,
                  body |-> [success |-> FALSE, error |-> "Internal server error"]]

\* C10: A value matched by no earlier branch (not an ApiError, not a
\* non-operational BaseError, statusCode not 404, no validation signal) is
\* answered with its own statusCode if it has one, else 500, and the body
\* {success: false, error: message, or 'Internal server error' if empty}.
C10_Fallback ==
  \A r \in Reqs :
    LET e == disp[r].error
    IN Dispatched(r) /\ ~e.isApi /\ ~(e.isBase /\ ~e.isOperational)
         /\ e.statusCode # 404 /\ ~e.validation =>
           reply[r] = [sent |-> 1,
                       status |-> IF e.statusCode # Undefined THEN e.statusCode ELSE 500,
                       body |-> [success |-> FALSE,
                                 error |-> IF e.message # "" THEN e.message
                                           ELSE "Internal server error"]]

\* an operational DatabaseError has been dispatched
C10_Witness ==
  \E r \in Reqs :
    /\ Dispatched(r)
    /\ disp[r].error.cls = "DatabaseError"
    /\ disp[r].error.isOperational
    /\ reply[r].status = 500
    /\ reply[r].body.error = "E11000 duplicate key"

\* the requests whose dispatch recorded exactly this label set
DispatchedWith(labels) == {r \in Reqs : disp[r].labels = << labels >>}

\* C11: For an error carrying the framework's schema-validation signal the
\* handler increments validation_errors_total exactly once, labelled with the
\* route pattern and the failing group (validation_type = validationContext),
\* and answers 400 with {success: false, error: 'Validation error', details:
\* the failing fields}.
C11_ValidationDispatch ==
  \A r \in Reqs :
    Dispatched(r) /\ disp[r].error.validation =>
      LET labels == [endpoint |-> Route(req[r].op).pattern,
                     validation_type |-> disp[r].error.validationContext]
      IN /\ disp[r].labels = << labels >>
         /\ CopiesIn(labels, metrics.validationErrors)
              = Cardinality(DispatchedWith(labels))
         /\ reply[r] = [sent |-> 1, status |-> 400,
                        body |-> [success |-> FALSE, error |-> "Validation error",
                                  details |-> disp[r].error.details]]

\* a create-user request with a rejected payload has been answered
C11_Witness ==
  \E r \in Reqs :
    /\ req[r].op = "createUser" /\ ~req[r].bodyOk
    /\ Dispatched(r)
    /\ disp[r].error.validationContext = "body"
    /\ reply[r].status = 400
    /\ CopiesIn([endpoint |-> <<"api", "users">>, validation_type |-> "body"],
                metrics.validationErrors) >= 1

\* a wrapped method in the chain of r has thrown
ThrewIn(r) == \E l \in Layers : inv[r][l].st = "threw"

\* the runs of errorHandler for r: it writes one raw error line per run
HandlerRuns(r) == Cardinality({k \in DOMAIN log[r] : log[r][k].mark = "raw"})

\* the layer below, whose settled call the layer awaits
Below(layer) == IF layer = "controller" THEN "service" ELSE "repository"

C12_Safety ==
  \A r \in Reqs :
    req[r].origin = "http" =>
      /\ reply[r].sent <= 1
      /\ HandlerRuns(r) <= 1
      \* a layer that caught an error threw that very error on
      /\ \A l \in Layers :
           LET i == inv[r][l]
           IN /\ Settled(i) /\ i.orig.kind = "error" => i.st = "threw" /\ i.out = i.orig
              /\ l # "repository" /\ Settled(i) /\ inv[r][Below(l)].st = "threw"
                   => i.orig = inv[r][Below(l)].out
      \* once the chain has unwound, the error was dispatched, once, on one
      \* branch, and answered with one failure reply
      /\ ThrewIn(r) /\ pc[r] \in {"onResponse", "done"} =>
           /\ inv[r]["controller"].st = "threw"
           /\ HandlerRuns(r) = 1
           /\ disp[r].branch \in {"api", "nonOperational", "notFound",
                                  "validation", "fallback"}
           /\ disp[r].error = inv[r]["controller"].out.err
           /\ reply[r].sent = 1
           /\ ~reply[r].body.success

WithContext(c, context) == [c EXCEPT !.context = context]

\* C13: For every ApiError and subclass, toClientResponse() has exactly the
\* keys success, error, code, timestamp (and details for a ValidationError),
\* with success = false, error = message and code = code; it has no context
\* and no stack key, holds no value of the context, and is the same whatever
\* context the error was constructed with.
C13_ClientViewHasNoContext ==
  ret.fn = "toClientResponse" =>
    /\ DOMAIN ret.v = {"success", "error", "code", "timestamp"}
                        \cup (IF call.cls = "ValidationError" THEN {"details"} ELSE {})
    /\ ret.v.success = FALSE
    /\ ret.v.error = ret.of.message
    /\ ret.v.code = ret.of.code
    /\ ret.v.timestamp = "iso:" \o ret.of.timestamp
    /\ call.cls = "ValidationError" => ret.v.details = call.details
    /\ ret.of.context # "" =>
         \A k \in DOMAIN ret.v \ {"success", "details"} : ret.v[k] # ret.of.context
    /\ \A c \in ErrorContexts : toClientResponse(New(WithContext(call, c))) = ret.v

\* the client view of a ValidationError built with a context and details, and
\* of a NotFoundError built with a context, has been taken
C13_Witness ==
  /\ ret.fn = "toClientResponse"
  /\ ret.of.context # ""
  /\ call.context = "internal:secret"
  /\ call.cls \in {"ValidationError", "NotFoundError"}
  /\ call.cls = "ValidationError" => call.details = <<"email">>

\* C14: Every constructed error value that carries an HTTP status (an ApiError
\* or a subclass) has isOperational = true; the only class constructed with
\* isOperational = false is ConfigurationError, and it carries no HTTP status.
C14_StatusImpliesOperational ==
  ret.fn = "new" =>
    /\ (isApiError(ret.v) \/ ret.v.statusCode # Undefined) => ret.v.isOperational
    /\ isApiError(ret.v) <=> ret.v.statusCode # Undefined
    /\ ~ret.v.isOperational =>
         /\ ret.v.cls = "ConfigurationError"
         /\ ret.v.statusCode = Undefined
         /\ ~isApiError(ret.v)
    /\ ret.v.cls = "ConfigurationError" => ~ret.v.isOperational

\* a ConfigurationError has been constructed
C14_Witness ==
  /\ ret.fn = "new"
  /\ ret.v.cls = "ConfigurationError"
  /\ ~ret.v.isOperational

BadIdLookup(r) ==
  /\ req[r].origin = "http" /\ req[r].op = "getUserById"
  /\ req[r].apiKey \in API_KEYS
  /\ ~MatchesObjectIdRegex(req[r].id)

\* C16: An authenticated GET /api/users/:id whose id is not a 24-character hex
\* string is rejected by parameter validation before the controller runs: no
\* controller, service or repository method is ever invoked for it, and it is
\* answered 400 with success = false and error = 'Validation error', with
\* validation_errors_total incremented under validation_type = "params".
C16_ParamsRejected ==
  \A r \in Reqs :
    BadIdLookup(r) =>
      /\ \A l \in Layers : inv[r][l].st = "idle"
      /\ pc[r] \notin {"preHandler", "handler", "service", "repository", "db"}
      /\ reply[r].sent > 0 \/ pc[r] \in {"onResponse", "done"} =>
           /\ reply[r].sent = 1
           /\ reply[r].status = 400
           /\ reply[r].body.success = FALSE
           /\ reply[r].body.error = "Validation error"
           /\ disp[r].branch = "validation"
           /\ CopiesIn([endpoint |-> <<"api", "users", ":id">>,
                        validation_type |-> "params"], metrics.validationErrors) = 1

\* such a request has been answered
C16_Witness ==
  \E r \in Reqs :
    /\ BadIdLookup(r) /\ req[r].id = BadId
    /\ pc[r] = "done"
    /\ reply[r].status = 400

\* an authenticated id operation with a well-formed id for which the data
\* store reports no matching document
NoMatch(r) ==
  /\ req[r].origin = "http" /\ req[r].op \in IdOps
  /\ req[r].apiKey \in API_KEYS
  /\ MatchesObjectIdRegex(req[r].id) /\ req[r].bodyOk
  /\ req[r].db \in {Value("null"), Value("deleted:0")}

AnsweredWithoutKey ==
  {r \in Reqs : req[r].origin = "http" /\ req[r].apiKey = ""
                  /\ pc[r] \in {"onResponse", "done"}}

\* C18: Every request to an /api route that carries no x-api-key header is
\* answered 401 with {success: false, error: "API key required"} and
\* increments auth_failures_total{reason="missing_api_key"} exactly once,
\* whatever its method, path parameters or body.
C18_MissingKey ==
  /\ \A r \in AnsweredWithoutKey :
       reply[r] = [sent |-> 1, status |-> 401,
                   body |-> [success |-> FALSE, error |-> "API key required"]]
  /\ CopiesIn([reason |-> "missing_api_key"], metrics.authFailures)
       = Cardinality(AnsweredWithoutKey)

\* the requests answered so far whose x-api-key is not in the allow-list
AnsweredWithBadKey ==
  {r \in Reqs : req[r].origin = "http" /\ req[r].apiKey # ""
                  /\ req[r].apiKey \notin API_KEYS
                  /\ pc[r] \in {"onResponse", "done"}}

\* C19: No /api request reaches a controller method or the data store unless
\* its x-api-key is in API_KEYS: a request whose key is present but not in the
\* list never has its route handler invoked, is answered 403 with
\* {success: false, error: 'Invalid API key'} and increments
\* auth_failures_total{reason="invalid_api_key"} exactly once.
C19_InvalidKey ==
  /\ \A r \in Reqs :
       req[r].origin = "http" /\ req[r].apiKey \notin API_KEYS =>
         /\ \A l \in Layers : inv[r][l].st = "idle"
         /\ pc[r] \notin {"handler", "service", "repository", "db"}
  /\ \A r \in AnsweredWithBadKey :
       reply[r] = [sent |-> 1, status |-> 403,
                   body |-> [success |-> FALSE, error |-> "Invalid API key"]]
  /\ CopiesIn([reason |-> "invalid_api_key"], metrics.authFailures)
       = Cardinality(AnsweredWithBadKey)

\* the sensitive field names, and a key that lower-cased with '-' and '_'
\* removed contains one of them
SensitiveNames ==
  { <<"p", "a", "s", "s", "w", "o", "r", "d">>, <<"a", "p", "i", "k", "e", "y">>,
    <<"t", "o", "k", "e", "n">>, <<"s", "e", "c", "r", "e", "t">>,
    <<"a", "u", "t", "h", "o", "r", "i", "z", "a", "t", "i", "o", "n">> }

SensitiveName(key) ==
  \E name \in SensitiveNames :
    includes(replaceSeparators(toLowerCase(key)), name)

\* the built object holds the marker at every sensitive key of its source
RedactedAt(source, out) ==
  /\ out.t = "record"
  /\ Len(out.entries) = Len(source.entries)
  /\ \A i \in DOMAIN source.entries :
       SensitiveName(source.entries[i][1]) =>
         out.entries[i] = << source.entries[i][1], REDACTED >>

\* C20: For every object sanitizeLogArgs traverses (a top-level argument, an
\* object nested under a key, a headers object) and every key of it whose
\* name, lower-cased with '-' and '_' removed, contains a sensitive field
\* name, the output holds '[REDACTED]' at that key, whatever the value was:
\* a string, null, undefined or a nested object.
C20_SensitiveKeysRedacted ==
  ret.fn = "sanitizeLogArgs" =>
    LET heap == call.heap
        kept == SelectSeq(call.args, LAMBDA x : ~isLoggerObject(x, heap))
    IN /\ Len(ret.v) = Len(kept)
       \* every traversal step
       /\ \A n \in DOMAIN ret.visited :
            RedactedAt(heap[ret.visited[n].id], ret.visited[n].out)
       \* the first argument and the objects one level below it
       /\ LET a == kept[1]
              source == heap[a.id]
          IN IsObject(a) /\ ~isFastifyObject(a, heap) =>
               /\ RedactedAt(source, ret.v[1])
               /\ \A i \in DOMAIN source.entries :
                    LET key == source.entries[i][1]
                        val == source.entries[i][2]
                    IN ~SensitiveName(key) /\ IsObject(val) /\ ~heap[val.id].array
                         /\ val.id # a.id /\ ~isFastifyObject(val, heap)
                         /\ (\A j \in 1..(i - 1) : source.entries[j][2] # val)
                         => RedactedAt(heap[val.id], ret.v[1].entries[i][2])

\* a nested object holding API_KEY: null has been sanitized
C20_Witness ==
  /\ ret.fn = "sanitizeLogArgs"
  /\ call = SanitizerCall("nested", <<"A", "P", "I", "_", "K", "E", "Y">>, Null)
  /\ ret.v[2].entries[2][2].entries[1]
       = << <<"A", "P", "I", "_", "K", "E", "Y">>, REDACTED >>

\* ---- the sanitizer's output as a tree, and the heap as a graph

\* the objects a heap object refers to directly
Successors(id, heap) ==
  { heap[id].entries[i][2].id :
      i \in { j \in DOMAIN heap[id].entries : heap[id].entries[j][2].t = "object" } }

\* the objects reachable from a set of objects, themselves included
RECURSIVE ReachableFrom(_, _)
ReachableFrom(ids, heap) ==
  LET more == ids \cup UNION { Successors(id, heap) : id \in ids }
  IN IF more = ids THEN ids ELSE ReachableFrom(more, heap)

\* the object lies on a cycle of references
OnCycle(id, heap) == id \in ReachableFrom(Successors(id, heap), heap)

\* the heap objects a value of the output still refers to as they are
RECURSIVE RawRefs(_)
RawRefs(value) ==
  CASE value.t = "object" -> {value.id}
    [] value.t = "record" ->
         UNION { RawRefs(value.entries[i][2]) : i \in DOMAIN value.entries }
    [] OTHER -> {}

\* the values found anywhere in a value of the output, itself included
RECURSIVE ValuesIn(_)
ValuesIn(value) ==
  IF value.t = "record"
    THEN {value} \cup UNION { ValuesIn(value.entries[i][2]) : i \in DOMAIN value.entries }
    ELSE {value}

\* the objects among the arguments, as ids
ArgIds(args) == { args[n].id : n \in { m \in DOMAIN args : args[m].t = "object" } }

\* C21: sanitizeLogArgs returns on every input, cyclic ones included, and
\* what it returns is free of cycles: wherever following references from an
\* argument would come back to an object, the output holds '[Circular]', so
\* no object left in the output as it was leads to a cycle.
C21_CyclesMarked ==
  ret.fn = "sanitizeLogArgs" =>
    LET cyclic == \E id \in ReachableFrom(ArgIds(call.args), call.heap) :
                    OnCycle(id, call.heap)
    IN cyclic =>
         /\ \E n \in DOMAIN ret.v : CIRCULAR_REFERENCE_MARKER \in ValuesIn(ret.v[n])
         /\ \A n \in DOMAIN ret.v : \A id \in RawRefs(ret.v[n]) :
              \A to \in ReachableFrom({id}, call.heap) : ~OnCycle(to, call.heap)

\* the cycle obj.self = obj, and the longer one through meta, are marked
C21_SelfMarked ==
  ret.fn = "sanitizeLogArgs"
    /\ (\E k \in TestKeys, v \in TestValues : call = SanitizerCall("cycle", k, v))
    => /\ ret.v[1].entries[1] = <<KeySelf, CIRCULAR_REFERENCE_MARKER>>
       /\ ret.v[1].entries[2][2].entries[2] = <<KeySelf, CIRCULAR_REFERENCE_MARKER>>

\* a value written out in full: an object as its class and its entries, each
\* value written out in turn (for values that reach no cycle)
RECURSIVE Deep(_, _)
Deep(value, heap) ==
  IF IsObject(value)
    THEN LET o == ObjectOf(value, heap)
         IN [class |-> o.class,
             entries |-> [i \in DOMAIN o.entries |->
                            << o.entries[i][1], Deep(o.entries[i][2], heap) >>]]
    ELSE value

\* the arguments reach a cycle of references
Cyclic(args, heap) ==
  \E id \in ReachableFrom(ArgIds(args), heap) : OnCycle(id, heap)

\* some object the arguments reach has a key with a sensitive name
HasSensitiveKey(args, heap) ==
  \E id \in ReachableFrom(ArgIds(args), heap) :
    \E i \in DOMAIN heap[id].entries : SensitiveName(heap[id].entries[i][1])

\* C22: For every argument list v whose values hold no sensitive key and
\* reach no cycle, sanitizeLogArgs(sanitizeLogArgs(v)) is structurally equal
\* to sanitizeLogArgs(v): as many values, and each one, written out in full,
\* the same.
C22_Idempotent ==
  ret.fn = "sanitizeLogArgs(sanitizeLogArgs)"
    /\ ~Cyclic(call.args, call.heap) /\ ~HasSensitiveKey(call.args, call.heap)
    => /\ Len(ret.v) = Len(ret.first)
       /\ \A n \in DOMAIN ret.first :
            Deep(ret.v[n], call.heap) = Deep(ret.first[n], call.heap)

\* an argument holding a nested object under the key email has been
\* sanitized twice, and both passes rebuilt both objects
C22_Witness ==
  /\ ret.fn = "sanitizeLogArgs(sanitizeLogArgs)"
  /\ call = SanitizerCall("nested", <<"e", "m", "a", "i", "l">>, Ref(4))
  /\ ret.first[2].entries[2][2].entries[1][2]
       = Sanitized(<< <<KeyInner, Prim("string", "x")>> >>)
  /\ Len(ret.visited) = 3
  /\ ret.v = ret.first

\* out is what the claim allows for the input value: the value itself (a
\* primitive, or the very same object), '[Circular]' for an object still open
\* above it, the framework marker for a framework object, and otherwise an
\* object of the same kind with the same keys in the same order, holding
\* '[REDACTED]' at sensitive keys and an allowed value at the others
RECURSIVE StructureKept(_, _, _, _)
StructureKept(value, out, open, heap) ==
  IF out = value THEN TRUE
  ELSE IF ~IsObject(value) THEN FALSE
  ELSE IF value.id \in open THEN out = CIRCULAR_REFERENCE_MARKER
  ELSE IF isFastifyObject(value, heap) THEN out = FASTIFY_OBJECT_MARKER
  ELSE /\ IsObject(out)
       /\ LET source == heap[value.id]
              built == ObjectOf(out, heap)
          IN /\ built.class = source.class
             /\ Len(built.entries) = Len(source.entries)
             /\ \A i \in DOMAIN source.entries :
                  /\ built.entries[i][1] = source.entries[i][1]
                  /\ IF SensitiveName(source.entries[i][1])
                       THEN built.entries[i][2] = REDACTED
                       ELSE StructureKept(source.entries[i][2], built.entries[i][2],
                                          open \cup {value.id}, heap)

\* C26: What sanitizeLogArgs returns is structurally identical to the
\* arguments it keeps: same positions, same keys, same kinds of value
\* (arrays, dates), except that values at sensitive keys are '[REDACTED]',
\* references that would close a cycle are '[Circular]', and framework
\* request/reply objects are '[FastifyRequest/Reply]'.
C26_StructurePreserved ==
  ret.fn = "sanitizeLogArgs" =>
    LET kept == SelectSeq(call.args, LAMBDA x : ~isLoggerObject(x, call.heap))
    IN /\ Len(ret.v) = Len(kept)
       /\ \A n \in DOMAIN kept : StructureKept(kept[n], ret.v[n], {}, call.heap)

\* the same, for calls in which no argument is an array or a Date, no plain
\* key holds a Date, no object is met twice and nothing lies behind headers
\* or an array
C26_PlainObjects ==
  ret.fn = "sanitizeLogArgs"
    /\ (\E shape \in {"top", "nested", "fastify", "logger", "cycle"} :
          \E k \in TestKeys, v \in TestValues \ {Ref(6)} :
            call = SanitizerCall(shape, k, v))
    => C26_StructurePreserved

\* wherever the output holds '[Circular]', the input held, at that position,
\* an object that is open there: one of those being traversed above it
RECURSIVE MarkedOnlyIfOpen(_, _, _, _)
MarkedOnlyIfOpen(value, out, open, heap) ==
  IF out = value THEN TRUE
  ELSE IF out = CIRCULAR_REFERENCE_MARKER
    THEN value.t = "object" /\ value.id \in open
  ELSE IF out.t = "record" /\ value.t = "object"
    THEN \A i \in DOMAIN out.entries :
           i \in DOMAIN heap[value.id].entries =>
             MarkedOnlyIfOpen(heap[value.id].entries[i][2], out.entries[i][2],
                              open \cup {value.id}, heap)
  ELSE TRUE

\* C27: sanitizeLogArgs puts '[Circular]' only where it meets again an
\* object that is still open, an ancestor on the current path; an object
\* reached twice without a cycle (under two sibling keys, or as two
\* positional arguments) is sanitized at each occurrence.
C27_OnlyOpenAncestors ==
  ret.fn = "sanitizeLogArgs" =>
    LET kept == SelectSeq(call.args, LAMBDA x : ~isLoggerObject(x, call.heap))
    IN \A n \in DOMAIN ret.v :
         n \in DOMAIN kept => MarkedOnlyIfOpen(kept[n], ret.v[n], {}, call.heap)

\* the same, for calls in which no object is reached twice off a cycle
C27_AncestorsMarked ==
  ret.fn = "sanitizeLogArgs"
    /\ (\E shape \in Shapes \ {"twice", "siblings"} :
          \E k \in TestKeys, v \in TestValues :
            call = SanitizerCall(shape, k, v))
    /\ ~(\E k \in TestKeys, v \in {Ref(4), Ref(6)} :
           call = SanitizerCall("arg", k, v))
    => C27_OnlyOpenAncestors

\* C28: sanitizeLogArgs leaves its argument list and every object reachable
\* from it as they were, so the method wrapped by @LogMethod, applied after
\* the entry log, receives the original, unredacted arguments.
C28_InputUntouched ==
  /\ ret.fn \in {"sanitizeLogArgs", "originalMethod"} => ret.heap = call.heap
  /\ ret.fn = "originalMethod" => ret.recvArgs = call.args

\* the entry log holds '[REDACTED]' for password while the method applied
\* afterwards receives the object with the password in it
C28_Witness ==
  /\ ret.fn = "originalMethod"
  /\ call = SanitizerCall("top", <<"p", "a", "s", "s", "w", "o", "r", "d">>,
                          Prim("string", "hunter2"))
  /\ ret.logged[1].entries[1][2] = REDACTED
  /\ ret.recvArgs = << Ref(1) >>
  /\ ret.heap[1].entries[1][2] = Prim("string", "hunter2")

\* the label set of a settled invocation: its class, its method and what the
\* wrapped method did
LabelsOf(c) ==
  [class_name |-> ClassName(c[2]),
   method_name |-> MethodName(c[2], req[c[1]].op),
   status |-> IF inv[c[1]][c[2]].orig.kind = "error" THEN "error" ELSE "success"]

\* the invocations that have completed
Completed == {c \in Invocations : Settled(inv[c[1]][c[2]])}

WrapperSettled == ret.fn = "LogMethod" /\ ret.st \in {"resolved", "rejected"}

\* C29: On each call of a @LogMethod wrapper the wrapped method is invoked
\* exactly once and the wrapper resolves or rejects as the method did, even
\* when argument sanitisation or a logger call throws; a method that returned
\* normally is never labelled error and never turned into a rejection.
C29_LoggingTransparent ==
  WrapperSettled =>
    /\ ret.calls = 1
    /\ ret.out = call.method
    /\ call.method.kind = "value" =>
         /\ ret.st = "resolved"
         /\ \A n \in DOMAIN ret.incs : ret.incs[n].status = "success"
         /\ \A n \in DOMAIN ret.obs : ret.obs[n].status = "success"

\* the same, for calls in which no sanitisation and no logger call throws
C29_WhenLoggingWorks ==
  WrapperSettled
    /\ (call.logger = NoLogger
        \/ ~(call.sanitizeThrows \/ call.entryThrows \/ call.exitThrows
             \/ call.errorThrows))
    => /\ C29_LoggingTransparent
       /\ Len(ret.incs) = 1 /\ Len(ret.obs) = 1

\* the process is up and a GET /metrics sent since has been answered
MetricsFetched ==
  /\ ret.fn = "server" /\ ret.phase = "started"
  /\ ret.last.phase = "started" /\ ret.last.url = "/metrics"

\* C24: When METRICS_PORT differs from PORT, GET /metrics is answered 200 on
\* the metrics port and 404 on the main port; when METRICS_PORT equals PORT
\* or is not set, GET /metrics is answered 200 on the main port.
C24_MetricsPort ==
  MetricsFetched =>
    LET e == ret.env.val
    IN IF e.METRICS_PORT # e.PORT
         THEN /\ ret.last.port = Bind(e.METRICS_PORT) => ret.last.status = 200
              /\ ret.last.port = Bind(e.PORT) => ret.last.status = 404
         ELSE ret.last.port = Bind(e.PORT) => ret.last.status = 200

\* what does hold: /metrics is answered 200 on the main port whatever
\* METRICS_PORT is, and on the metrics port when it differs
C24_MetricsEverywhere ==
  MetricsFetched =>
    LET e == ret.env.val
    IN /\ ret.last.port = Bind(e.PORT) => ret.last.status = 200
       /\ e.METRICS_PORT # e.PORT /\ ret.last.port = Bind(e.METRICS_PORT)
            => ret.last.status = 200

\* the string is not a number: it has a character that is not a digit
NotANumber(chars) == \E i \in DOMAIN chars : ~IsDigit(chars[i]) /\ chars[i] # " "

\* the environment the process is started in is invalid: a numeric variable
\* that is not a number, or production without DB_CERT_KEY_PATH
InvalidConfiguration(p) ==
  \/ p.PORT.set /\ NotANumber(p.PORT.value)
  \/ p.MONGODB_MAX_POOL_SIZE.set /\ NotANumber(p.MONGODB_MAX_POOL_SIZE.value)
  \/ p.NODE_ENV = EnvValue(Production)
       /\ (~p.DB_CERT_KEY_PATH.set \/ p.DB_CERT_KEY_PATH.value = <<>>)

C30_ReadyOnlyIfConnected ==
  ret.fn = "health" /\ ret.st = "replied" /\ call.url = "/health/ready" =>
    /\ ret.code = 200 =>
         /\ ret.status = "healthy"
         /\ ret.checks.database = "connected"
         /\ ret.checks.container = "connected"
    /\ ~(call.mongo = "db" /\ call.ping = "ok1" /\ call.cradleDb = "db") =>
         ret.code = 503 /\ ret.status = "unhealthy"

\* what does hold of /health/ready: 503 'unhealthy' when the container
\* cannot be resolved, the database handle is missing or the ping rejects,
\* and 200 'healthy' otherwise, whatever the checks say
C30_ReadyOnThrowOnly ==
  ret.fn = "health" /\ ret.st = "replied" /\ call.url = "/health/ready" =>
    IF call.cradleDb = "unregistered" \/ call.mongo # "db" \/ call.ping = "rejects"
      THEN ret.code = 503 /\ ret.status = "unhealthy"
      ELSE ret.code = 200 /\ ret.status = "healthy"

====
